---- MODULE Spec2Model ----
(***************************************************************************)
(* The continuous learning loop of src/models/continuous_learning.py       *)
(* (ContinuousLearningSystem) against its relational store.                *)
(*                                                                         *)
(* Every call of a public method is one client with its own connection     *)
(* (connect_db is called at the top of every method).  A step of a client  *)
(* is one statement sent to the store (execute, commit) together with the  *)
(* local code that follows it up to the next statement.  Rows written by   *)
(* execute stay in the connection's open transaction (tx) until commit;    *)
(* rollback and close discard them.                                        *)
(*                                                                         *)
(* Rates are kept in tenths of a percent (69.9% is 699).                   *)
(*                                                                         *)
(* The analysis engine of src/models/anti_recency_engine.py                *)
(* (AntiRecencyEngine) and the two POST handlers of                        *)
(* src/api/workflow_routes.py follow, with specifications of their own:    *)
(* Spec is the learning loop, EngineSpec the calls of analyze_prop and     *)
(* RouteSpec the requests to /analyze-prop and /batch-analysis.  The       *)
(* engine computes in float64, which is modelled bit for bit.              *)
(***************************************************************************)
EXTENDS Integers, Sequences, FiniteSets, Bags, TLC

\* ------------------------------------------------------------- bounds
NumCalls == 2            \* method calls made in one run (concurrent or not)
InitialPredictions == 2  \* prediction rows the store holds at construction
MaxFaults == 1           \* statements the store may fail in one run
MaxUpserts == 1          \* rewrites of the daily metric row in one run
NumThreads == 2          \* threads of the process that use api.database
MaxImports == 2          \* executions of the module api.database in one process
MaxStartups == 2         \* startups of the application, one after the other
NumMigrations == 3       \* .sql files of the migrations directory

Calls == 1..NumCalls
Sports == {"NBA"}

Tenths(percent) == percent * 10

\* self.accuracy_threshold = 70.0 and self.min_predictions = 50
accuracy_threshold == Tenths(70)
min_predictions == 50

\* cursor_factory=psycopg2.extras.RealDictCursor of the three public cursors
cursor_factory == "RealDictCursor"

VARIABLES
    predictions,               \* table: set of [prediction_id, sport]
    prediction_results,        \* table: set of [prediction_id, by]
    model_retraining_triggers, \* table: set of [sport, accuracy, at, by]
    continuous_learning_log,   \* table: bag of [sport, event_type, by]
    model_performance_metrics, \* latest daily row per sport: <<>> or <<row>>
    prediction_id_seq,         \* next value of the prediction_id default
    pc, op, arg,               \* per call: position, method, argument
    tx,                        \* per call: rows of the open transaction
    sport,                     \* per call: local `sport` of verify_result
    metric_row,                \* per call: local `result` of _check_retraining_needed
    outcome, ret,              \* per call: how it ended, what it returned
    logged,                    \* per call: the logger.error lines it wrote
    faulted,                   \* per call: the statement the store failed last, or "no"
    faults, upserts            \* counters that bound the environment

tables == <<predictions, prediction_results, model_retraining_triggers,
            continuous_learning_log, model_performance_metrics, prediction_id_seq>>
vars == <<predictions, prediction_results, model_retraining_triggers,
          continuous_learning_log, model_performance_metrics, prediction_id_seq,
          pc, op, arg, tx, sport, metric_row, outcome, ret, logged, faulted,
          faults, upserts>>

\* the analysis workflow of src/models/anti_recency_engine.py and
\* src/api/workflow_routes.py; the learning loop never touches it
VARIABLES
    analysis_engine,           \* the AntiRecencyEngine object: <<>> or <<its attributes>>
    call,                      \* the arguments of the analyze_prop call: <<>> or <<record>>
    frame,                     \* the locals of analyze_prop when it ended: <<>> or <<record>>
    projection,                \* the WeightedProjection returned: <<>> or <<record>>
    raised,                    \* the exception analyze_prop raised, or "no"
    request,                   \* the HTTP request received: <<>> or <<record>>
    response                   \* the HTTP response sent: <<>> or <<record>>

workflow_vars == <<analysis_engine, call, frame, projection, raised, request, response>>

\* the connection pool of src/api/database.py (DatabaseManager), used by threads
\* of one process
VARIABLES
    imports,                   \* executions of the module api.database begun so far
    importing,                 \* the thread executing the module, 0 for none
    imported,                  \* the module is in sys.modules, fully executed
    _instance,                 \* DatabaseManager._instance: <<>> for None or <<object>>
    _connection_pool,          \* per object: its _connection_pool, 0 for None
    pools,                     \* the pools created: [closed, used] each
    db_manager,                \* the module global: <<>> or <<object>>
    received,                  \* the objects DatabaseManager() has returned to callers
    thread_pc,                 \* per thread: position
    thread_conn,               \* per thread: local `conn` of execute_query, 0 for None
    thread_result              \* per thread: how its last call ended

database_vars == <<imports, importing, imported, _instance, _connection_pool, pools,
                   db_manager, received, thread_pc, thread_conn, thread_result>>

\* the startup of src/start_app.py with the migration runner of
\* src/run_migration.py, one startup at a time against one database
VARIABLES
    startups,                  \* startups begun so far
    startup_pc,                \* position of the startup under way, "idle" for none
    DATABASE_URL,              \* os.getenv('DATABASE_URL') of the startup: set or not
    conn_bound,                \* the local `conn` of run_migrations is assigned
    schema_migrations,         \* table: <<>> while it does not exist, else <<committed versions>>
    applied,                   \* the migrations whose SQL effects are committed
    migration_tx,              \* the open transaction: [versions, effects]
    migrations_to_run,         \* the pending migration files not yet run, in order
    executions,                \* every cursor.execute(sql) of a file: [startup, file, recorded]
    success,                   \* the local `success` of start_app: "none", "True" or "False"
    completed                  \* the startups over: [returned, flask]

migration_vars == <<startups, startup_pc, DATABASE_URL, conn_bound, schema_migrations,
                    applied, migration_tx, migrations_to_run, executions, success,
                    completed>>

infrastructure_vars == <<database_vars, migration_vars>>

\* ------------------------------------------------------------- the store
EmptyTx == [predictions |-> {}, prediction_results |-> {}, model_retraining_triggers |-> {}]

KnownIds == {p.prediction_id : p \in predictions}
VerifiedIds == {r.prediction_id : r \in prediction_results}

\* ids a caller may pass to verify_result: the stored ones and one more
StoredIds == 1..InitialPredictions
VerifyIds == 1..(InitialPredictions + 1)

\* the rows an aggregation may leave as the latest daily metric of a sport
MetricChoices ==
    { [total_predictions |-> min_predictions - 1, accuracy_rate |-> Tenths(60)],
      [total_predictions |-> min_predictions,     accuracy_rate |-> accuracy_threshold - 1],
      [total_predictions |-> min_predictions,     accuracy_rate |-> accuracy_threshold] }

MetricRow(m, at) == [total_predictions |-> m.total_predictions,
                     accuracy_rate |-> m.accuracy_rate, updated_at |-> at]

\* whether the store fails the statement a step sends
FaultChoices == IF faults < MaxFaults THEN {FALSE, TRUE} ELSE {FALSE}

Store(c, f) ==
    /\ faults' = IF f THEN faults + 1 ELSE faults
    /\ faulted' = [faulted EXCEPT ![c] = IF f THEN pc[c] ELSE @]

\* conn.commit(): the rows of the open transaction become visible
CommitTx(c) ==
    /\ predictions' = predictions \cup tx[c].predictions
    /\ prediction_results' = prediction_results \cup tx[c].prediction_results
    /\ model_retraining_triggers' =
           model_retraining_triggers \cup tx[c].model_retraining_triggers
    /\ tx' = [tx EXCEPT ![c] = EmptyTx]

\* conn.rollback() and conn.close() with an open transaction
DiscardTx(c) ==
    /\ tx' = [tx EXCEPT ![c] = EmptyTx]
    /\ UNCHANGED <<predictions, prediction_results, model_retraining_triggers>>

\* the constraints of prediction_results on an INSERT of prediction_id pid:
\* a foreign key to predictions and at most one row per prediction_id
prediction_results_constraints(pid) ==
    IF pid \notin KnownIds THEN "ForeignKeyViolation"
    ELSE IF pid \in VerifiedIds THEN "UniqueViolation"
    ELSE "ok"

\* an INSERT of a key that another open transaction has inserted waits for it
prediction_results_waits(c, pid) ==
    \E d \in Calls \ {c} : \E r \in tx[d].prediction_results : r.prediction_id = pid

\* row[0] on a fetched row: rows of a RealDictCursor are dicts keyed by column name
fetchone_index0(factory) ==
    IF factory = "RealDictCursor" THEN "KeyError" ELSE "ok"

\* ------------------------------------------------------------- _log_learning_event
log_learning_event(c, sp, event_type, f) ==
    IF f
    THEN /\ DiscardTx(c)
         /\ logged' = [logged EXCEPT ![c] = @ \cup {"logging learning event"}]
         /\ UNCHANGED continuous_learning_log
    ELSE /\ CommitTx(c)
         /\ continuous_learning_log' = continuous_learning_log (+)
                SetToBag({[sport |-> sp, event_type |-> event_type, by |-> c]})
         /\ UNCHANGED logged

\* ------------------------------------------------------------- verify_result
\* verify_result's except clause without its `raise`: the caller gets a return
verify_result_except_returns(c, error) ==
    /\ DiscardTx(c)
    /\ logged' = [logged EXCEPT ![c] = @ \cup {"verifying result"}]
    /\ outcome' = [outcome EXCEPT ![c] = "ok"]
    /\ pc' = [pc EXCEPT ![c] = "done"]
    /\ UNCHANGED <<continuous_learning_log, model_performance_metrics,
                   prediction_id_seq, op, arg, sport, metric_row, ret, upserts>>

\* the except clause of verify_result: log, roll back, re-raise; finally close
verify_result_except(c, error) ==
    /\ DiscardTx(c)
    /\ logged' = [logged EXCEPT ![c] = @ \cup {"verifying result"}]
    /\ outcome' = [outcome EXCEPT ![c] = error]
    /\ pc' = [pc EXCEPT ![c] = "done"]
    /\ UNCHANGED <<continuous_learning_log, model_performance_metrics,
                   prediction_id_seq, op, arg, sport, metric_row, ret, upserts>>

\* the call, conn = self.connect_db() and conn.cursor(...)
verify_result_begin(c) ==
    /\ pc[c] = "idle"
    /\ UNCHANGED <<workflow_vars, infrastructure_vars>>
    /\ \E pid \in VerifyIds :
        /\ op' = [op EXCEPT ![c] = "verify_result"]
        /\ arg' = [arg EXCEPT ![c] = pid]
        /\ pc' = [pc EXCEPT ![c] = "v_insert"]
    /\ UNCHANGED <<tables, outcome, faulted, faults, tx, sport, metric_row, ret, logged, upserts>>

\* verify_result's INSERT with a refusal by the store ignored: the call goes on
verify_result_insert_unchecked(c) ==
    /\ pc[c] = "v_insert"
    /\ UNCHANGED <<workflow_vars, infrastructure_vars>>
    /\ ~prediction_results_waits(c, arg[c])
    /\ \E f \in FaultChoices :
        /\ Store(c, f)
        /\ IF f THEN verify_result_except(c, "StorageError")
           ELSE /\ tx' = [tx EXCEPT ![c].prediction_results =
                            IF prediction_results_constraints(arg[c]) # "ok" THEN {}
                            ELSE {[prediction_id |-> arg[c], by |-> c]}]
                /\ pc' = [pc EXCEPT ![c] = "v_commit"]
                /\ UNCHANGED <<tables, op, arg, sport, metric_row, outcome, ret,
                               logged, upserts>>

\* cur.execute(INSERT INTO prediction_results ...); result = cur.fetchone()
verify_result_insert(c) ==
    /\ pc[c] = "v_insert"
    /\ UNCHANGED <<workflow_vars, infrastructure_vars>>
    /\ ~prediction_results_waits(c, arg[c])
    /\ \E f \in FaultChoices :
        /\ Store(c, f)
        /\ IF f THEN verify_result_except(c, "StorageError")
           ELSE IF prediction_results_constraints(arg[c]) # "ok"
           THEN verify_result_except(c, prediction_results_constraints(arg[c]))
           ELSE /\ tx' = [tx EXCEPT ![c].prediction_results =
                            {[prediction_id |-> arg[c], by |-> c]}]
                /\ pc' = [pc EXCEPT ![c] = "v_commit"]
                /\ UNCHANGED <<tables, op, arg, sport, metric_row, outcome, ret,
                               logged, upserts>>

\* verify_result without the conn.commit() that follows its INSERT
verify_result_commit_skipped(c) ==
    /\ pc[c] = "v_commit"
    /\ UNCHANGED <<workflow_vars, infrastructure_vars>>
    /\ pc' = [pc EXCEPT ![c] = "v_select"]
    /\ UNCHANGED <<tables, op, arg, tx, sport, metric_row, outcome, ret, logged,
                   faulted, faults, upserts>>

\* conn.commit()
verify_result_commit(c) ==
    /\ pc[c] = "v_commit"
    /\ UNCHANGED <<workflow_vars, infrastructure_vars>>
    /\ \E f \in FaultChoices :
        /\ Store(c, f)
        /\ IF f THEN verify_result_except(c, "StorageError")
           ELSE /\ CommitTx(c)
                /\ pc' = [pc EXCEPT ![c] = "v_select"]
                /\ UNCHANGED <<continuous_learning_log, model_performance_metrics,
                               prediction_id_seq, op, arg, sport, metric_row,
                               outcome, ret, logged, upserts>>

\* cur.execute(SELECT sport FROM predictions ...); sport = cur.fetchone()['sport']
verify_result_select_sport(c) ==
    /\ pc[c] = "v_select"
    /\ UNCHANGED <<workflow_vars, infrastructure_vars>>
    /\ \E f \in FaultChoices :
        /\ Store(c, f)
        /\ IF f THEN verify_result_except(c, "StorageError")
           ELSE IF arg[c] \notin KnownIds
           THEN verify_result_except(c, "TypeError")
           ELSE /\ sport' = [sport EXCEPT ![c] =
                       (CHOOSE p \in predictions : p.prediction_id = arg[c]).sport]
                /\ pc' = [pc EXCEPT ![c] = "v_log"]
                /\ UNCHANGED <<tables, op, arg, tx, metric_row, outcome, ret,
                               logged, upserts>>

\* self._log_learning_event(conn, sport, 'result_verified', ...)
verify_result_log(c) ==
    /\ pc[c] = "v_log"
    /\ UNCHANGED <<workflow_vars, infrastructure_vars>>
    /\ \E f \in FaultChoices :
        /\ Store(c, f)
        /\ log_learning_event(c, sport[c], "result_verified", f)
    /\ pc' = [pc EXCEPT ![c] = "r_select"]
    /\ UNCHANGED <<model_performance_metrics, prediction_id_seq, op, arg, sport,
                   metric_row, outcome, ret, upserts>>

\* ------------------------------------------------------------- _check_retraining_needed
\* the policy with `<=` for `<` in the comparison with the threshold
should_retrain_inclusive(result) ==
    /\ result # <<>>
    /\ result[1].total_predictions >= min_predictions
    /\ result[1].accuracy_rate <= accuracy_threshold

\* the policy with a memory of the triggers written so far, those of open
\* transactions included
should_retrain_unless_triggered(result) ==
    /\ result # <<>>
    /\ result[1].total_predictions >= min_predictions
    /\ result[1].accuracy_rate < accuracy_threshold
    /\ model_retraining_triggers = {}
    /\ \A d \in Calls : tx[d].model_retraining_triggers = {}

\* result and result['total_predictions'] >= self.min_predictions and
\* float(result['accuracy_rate']) < self.accuracy_threshold
should_retrain(result) ==
    /\ result # <<>>
    /\ result[1].total_predictions >= min_predictions
    /\ result[1].accuracy_rate < accuracy_threshold

\* the except clause of _check_retraining_needed: log and carry on
check_retraining_except(c) ==
    /\ logged' = [logged EXCEPT ![c] = @ \cup {"checking retraining"}]
    /\ pc' = [pc EXCEPT ![c] = "v_return"]

\* cur.execute(SELECT accuracy_rate, total_predictions ... LIMIT 1); cur.fetchone()
check_retraining_select(c) ==
    /\ pc[c] = "r_select"
    /\ UNCHANGED <<workflow_vars, infrastructure_vars>>
    /\ \E f \in FaultChoices :
        /\ Store(c, f)
        /\ IF f
           THEN /\ check_retraining_except(c)
                /\ UNCHANGED metric_row
           ELSE /\ metric_row' = [metric_row EXCEPT ![c] =
                                     model_performance_metrics[sport[c]]]
                /\ pc' = [pc EXCEPT ![c] =
                       IF should_retrain(model_performance_metrics[sport[c]])
                       THEN "r_insert" ELSE "v_return"]
                /\ UNCHANGED logged
    /\ UNCHANGED <<tables, op, arg, tx, sport, outcome, ret, upserts>>

\* the rest of the try block, from the INSERT on, one statement a step:
\*   cur.execute(INSERT INTO model_retraining_triggers ...); cur.fetchone()[0]
\*   conn.commit()
\*   self._log_learning_event(conn, sport, 'retrain_triggered', ...)
check_retraining_trigger(c) ==
    /\ pc[c] \in {"r_insert", "r_commit", "r_log"}
    /\ UNCHANGED <<workflow_vars, infrastructure_vars>>
    /\ \E f \in FaultChoices :
        /\ Store(c, f)
        /\ IF pc[c] = "r_insert"
           THEN /\ IF f
                   THEN /\ check_retraining_except(c)
                        /\ UNCHANGED tx
                   ELSE /\ tx' = [tx EXCEPT ![c].model_retraining_triggers =
                                    {[sport |-> sport[c],
                                      accuracy |-> metric_row[c][1].accuracy_rate,
                                      at |-> metric_row[c][1].updated_at,
                                      by |-> c]}]
                        /\ IF fetchone_index0(cursor_factory) # "ok"
                           THEN check_retraining_except(c)
                           ELSE /\ pc' = [pc EXCEPT ![c] = "r_commit"]
                                /\ UNCHANGED logged
                /\ UNCHANGED <<predictions, prediction_results,
                               model_retraining_triggers, continuous_learning_log>>
           ELSE IF pc[c] = "r_commit"
           THEN /\ IF f
                   THEN /\ check_retraining_except(c)
                        /\ UNCHANGED <<predictions, prediction_results,
                                       model_retraining_triggers, tx>>
                   ELSE /\ CommitTx(c)
                        /\ pc' = [pc EXCEPT ![c] = "r_log"]
                        /\ UNCHANGED logged
                /\ UNCHANGED continuous_learning_log
           ELSE /\ log_learning_event(c, sport[c], "retrain_triggered", f)
                /\ pc' = [pc EXCEPT ![c] = "v_return"]
    /\ UNCHANGED <<model_performance_metrics, prediction_id_seq, op, arg, sport,
                   metric_row, outcome, ret, upserts>>

\* return dict(result); finally: cur.close(); conn.close(); the locals are gone
verify_result_return(c) ==
    /\ pc[c] = "v_return"
    /\ UNCHANGED <<workflow_vars, infrastructure_vars>>
    /\ DiscardTx(c)
    /\ outcome' = [outcome EXCEPT ![c] = "ok"]
    /\ ret' = [ret EXCEPT ![c] = <<[prediction_id |-> arg[c]]>>]
    /\ pc' = [pc EXCEPT ![c] = "done"]
    /\ sport' = [sport EXCEPT ![c] = "none"]
    /\ metric_row' = [metric_row EXCEPT ![c] = <<>>]
    /\ UNCHANGED <<continuous_learning_log, model_performance_metrics,
                   prediction_id_seq, op, arg, logged, faulted, faults, upserts>>

\* ------------------------------------------------------------- log_prediction
\* the except clause of log_prediction: log, roll back, re-raise; finally close
log_prediction_except(c, error) ==
    /\ DiscardTx(c)
    /\ logged' = [logged EXCEPT ![c] = @ \cup {"logging prediction"}]
    /\ outcome' = [outcome EXCEPT ![c] = error]
    /\ pc' = [pc EXCEPT ![c] = "done"]
    /\ UNCHANGED <<continuous_learning_log, arg, ret>>

\* the call, conn = self.connect_db() and conn.cursor(...)
log_prediction_begin(c) ==
    /\ pc[c] = "idle"
    /\ UNCHANGED <<workflow_vars, infrastructure_vars>>
    /\ \E sp \in Sports :
        /\ op' = [op EXCEPT ![c] = "log_prediction"]
        /\ sport' = [sport EXCEPT ![c] = sp]
        /\ pc' = [pc EXCEPT ![c] = "l_insert"]
    /\ UNCHANGED <<tables, outcome, faulted, faults, arg, tx, metric_row, ret, logged, upserts>>

\* the try block, one statement a step:
\*   cur.execute(INSERT INTO predictions ... RETURNING prediction_id)
\*   prediction_id = cur.fetchone()[0]
\*   conn.commit()
\*   self._log_learning_event(conn, sport, 'prediction_made', ...)
\*   return str(prediction_id)
log_prediction_body(c) ==
    /\ pc[c] \in {"l_insert", "l_commit", "l_log"}
    /\ UNCHANGED <<workflow_vars, infrastructure_vars>>
    /\ \E f \in FaultChoices :
        /\ Store(c, f)
        /\ IF pc[c] = "l_insert"
           THEN IF f
                THEN /\ log_prediction_except(c, "StorageError")
                     /\ UNCHANGED prediction_id_seq
                ELSE /\ prediction_id_seq' = prediction_id_seq + 1
                     /\ IF fetchone_index0(cursor_factory) # "ok"
                        THEN log_prediction_except(c, "KeyError")
                        ELSE /\ tx' = [tx EXCEPT ![c].predictions =
                                         {[prediction_id |-> prediction_id_seq,
                                           sport |-> sport[c]]}]
                             /\ arg' = [arg EXCEPT ![c] = prediction_id_seq]
                             /\ pc' = [pc EXCEPT ![c] = "l_commit"]
                             /\ UNCHANGED <<predictions, prediction_results,
                                            model_retraining_triggers,
                                            continuous_learning_log,
                                            outcome, ret, logged>>
           ELSE IF pc[c] = "l_commit"
           THEN IF f
                THEN /\ log_prediction_except(c, "StorageError")
                     /\ UNCHANGED prediction_id_seq
                ELSE /\ CommitTx(c)
                     /\ pc' = [pc EXCEPT ![c] = "l_log"]
                     /\ UNCHANGED <<continuous_learning_log, prediction_id_seq,
                                    arg, outcome, ret, logged>>
           ELSE /\ log_learning_event(c, sport[c], "prediction_made", f)
                /\ outcome' = [outcome EXCEPT ![c] = "ok"]
                /\ ret' = [ret EXCEPT ![c] = <<arg[c]>>]
                /\ pc' = [pc EXCEPT ![c] = "done"]
                /\ UNCHANGED <<prediction_id_seq, arg>>
    /\ UNCHANGED <<model_performance_metrics, op, sport, metric_row, upserts>>

\* ------------------------------------------------------------- get_accuracy_metrics
\* the call, conn = self.connect_db() and conn.cursor(...)
get_accuracy_metrics_begin(c) ==
    /\ pc[c] = "idle"
    /\ UNCHANGED <<workflow_vars, infrastructure_vars>>
    /\ \E sp \in Sports :
        /\ op' = [op EXCEPT ![c] = "get_accuracy_metrics"]
        /\ sport' = [sport EXCEPT ![c] = sp]
        /\ pc' = [pc EXCEPT ![c] = "m_query"]
    /\ UNCHANGED <<tables, outcome, faulted, faults, arg, tx, metric_row, ret, logged, upserts>>

\* cur.execute(SELECT ... FROM model_performance_metrics ...); cur.fetchall();
\* return [dict(row) for row in results]; except: log and return []
get_accuracy_metrics_query(c) ==
    /\ pc[c] = "m_query"
    /\ UNCHANGED <<workflow_vars, infrastructure_vars>>
    /\ \E f \in FaultChoices :
        /\ Store(c, f)
        /\ IF f
           THEN /\ logged' = [logged EXCEPT ![c] = @ \cup {"getting accuracy metrics"}]
                /\ ret' = [ret EXCEPT ![c] = <<>>]
           ELSE /\ ret' = [ret EXCEPT ![c] = model_performance_metrics[sport[c]]]
                /\ UNCHANGED logged
    /\ outcome' = [outcome EXCEPT ![c] = "ok"]
    /\ pc' = [pc EXCEPT ![c] = "done"]
    /\ UNCHANGED <<tables, op, arg, tx, sport, metric_row, upserts>>

\* ------------------------------------------------------------- get_learning_summary
\* (line 172, `summary = {}`, is indented deeper than the block it stands in;
\* it is read as the statement before `try`, where the method needs it)
\* the call, conn = self.connect_db() and conn.cursor(...)
get_learning_summary_begin(c) ==
    /\ pc[c] = "idle"
    /\ UNCHANGED <<workflow_vars, infrastructure_vars>>
    /\ \E sp \in Sports :
        /\ op' = [op EXCEPT ![c] = "get_learning_summary"]
        /\ sport' = [sport EXCEPT ![c] = sp]
        /\ pc' = [pc EXCEPT ![c] = "s_retrains"]
    /\ UNCHANGED <<tables, outcome, faulted, faults, arg, tx, metric_row, ret, logged, upserts>>

\* the except clause of get_learning_summary: log and return {}
get_learning_summary_except(c) ==
    /\ logged' = [logged EXCEPT ![c] = @ \cup {"getting learning summary"}]
    /\ ret' = [ret EXCEPT ![c] = <<>>]
    /\ outcome' = [outcome EXCEPT ![c] = "ok"]
    /\ pc' = [pc EXCEPT ![c] = "done"]

\* cur.execute(SELECT COUNT(*) as retrains FROM model_retraining_triggers ...)
\* summary['retraining_events'] = cur.fetchone()['retrains']
get_learning_summary_retrains(c) ==
    /\ pc[c] = "s_retrains"
    /\ UNCHANGED <<workflow_vars, infrastructure_vars>>
    /\ \E f \in FaultChoices :
        /\ Store(c, f)
        /\ IF f
           THEN get_learning_summary_except(c)
           ELSE /\ ret' = [ret EXCEPT ![c] =
                      <<[retraining_events |-> Cardinality(
                            {t \in model_retraining_triggers : t.sport = sport[c]}),
                         learning_events |-> -1]>>]
                /\ pc' = [pc EXCEPT ![c] = "s_events"]
                /\ UNCHANGED <<outcome, logged>>
    /\ UNCHANGED <<tables, op, arg, tx, sport, metric_row, upserts>>

\* cur.execute(SELECT COUNT(*) as events FROM continuous_learning_log ...)
\* summary['learning_events'] = cur.fetchone()['events']; return summary
get_learning_summary_events(c) ==
    /\ pc[c] = "s_events"
    /\ UNCHANGED <<workflow_vars, infrastructure_vars>>
    /\ \E f \in FaultChoices :
        /\ Store(c, f)
        /\ IF f
           THEN get_learning_summary_except(c)
           ELSE /\ ret' = [ret EXCEPT ![c] =
                      <<[ret[c][1] EXCEPT !.learning_events = BagCardinality(
                            [e \in {x \in BagToSet(continuous_learning_log) :
                                        x.sport = sport[c]}
                                |-> continuous_learning_log[e]])]>>]
                /\ outcome' = [outcome EXCEPT ![c] = "ok"]
                /\ pc' = [pc EXCEPT ![c] = "done"]
                /\ UNCHANGED logged
    /\ UNCHANGED <<tables, op, arg, tx, sport, metric_row, upserts>>

\* ------------------------------------------------------------- the aggregation
\* the daily metric row of a sport is written by the store's own aggregation
metrics_upsert ==
    /\ upserts < MaxUpserts
    /\ UNCHANGED <<workflow_vars, infrastructure_vars>>
    /\ upserts' = upserts + 1
    /\ \E s \in Sports, m \in MetricChoices :
        model_performance_metrics' =
            [model_performance_metrics EXCEPT ![s] = <<MetricRow(m, upserts + 1)>>]
    /\ UNCHANGED <<predictions, prediction_results, model_retraining_triggers,
                   continuous_learning_log, prediction_id_seq,
                   pc, op, arg, tx, sport, metric_row, outcome, ret, logged,
                   faulted, faults>>

\* ------------------------------------------------------------- the system
LearningInit ==
    /\ predictions = {[prediction_id |-> i, sport |-> "NBA"] : i \in StoredIds}
    /\ prediction_results = {}
    /\ model_retraining_triggers = {}
    /\ continuous_learning_log = EmptyBag
    /\ model_performance_metrics = [s \in Sports |-> <<>>]
    /\ prediction_id_seq = InitialPredictions + 1
    /\ pc = [c \in Calls |-> "idle"]
    /\ op = [c \in Calls |-> "none"]
    /\ arg = [c \in Calls |-> 0]
    /\ tx = [c \in Calls |-> EmptyTx]
    /\ sport = [c \in Calls |-> "none"]
    /\ metric_row = [c \in Calls |-> <<>>]
    /\ outcome = [c \in Calls |-> "none"]
    /\ ret = [c \in Calls |-> <<>>]
    /\ logged = [c \in Calls |-> {}]
    /\ faulted = [c \in Calls |-> "no"]
    /\ faults = 0
    /\ upserts = 0

\* nothing of the analysis workflow has run
WorkflowIdle ==
    /\ analysis_engine = <<>>
    /\ call = <<>>
    /\ frame = <<>>
    /\ projection = <<>>
    /\ raised = "no"
    /\ request = <<>>
    /\ response = <<>>

\* no transaction is open
NoTx == [versions |-> {}, effects |-> {}]

\* an empty database, the application not yet started
MigrationInit ==
    /\ startups = 0
    /\ startup_pc = "idle"
    /\ DATABASE_URL = FALSE
    /\ conn_bound = FALSE
    /\ schema_migrations = <<>>
    /\ applied = {}
    /\ migration_tx = NoTx
    /\ migrations_to_run = <<>>
    /\ executions = <<>>
    /\ success = "none"
    /\ completed = <<>>

\* no thread has imported api.database
DatabaseInit ==
    /\ imports = 0
    /\ importing = 0
    /\ imported = FALSE
    /\ _instance = <<>>
    /\ _connection_pool = <<>>
    /\ pools = <<>>
    /\ db_manager = <<>>
    /\ received = {}
    /\ thread_pc = [t \in 1..NumThreads |-> "idle"]
    /\ thread_conn = [t \in 1..NumThreads |-> 0]
    /\ thread_result = [t \in 1..NumThreads |-> "none"]

Init == LearningInit /\ WorkflowIdle /\ DatabaseInit /\ MigrationInit

Next ==
    \/ \E c \in Calls : verify_result_begin(c)
    \/ \E c \in Calls : verify_result_insert(c)
    \/ \E c \in Calls : verify_result_commit(c)
    \/ \E c \in Calls : verify_result_select_sport(c)
    \/ \E c \in Calls : verify_result_log(c)
    \/ \E c \in Calls : check_retraining_select(c)
    \/ \E c \in Calls : check_retraining_trigger(c)
    \/ \E c \in Calls : verify_result_return(c)
    \/ \E c \in Calls : log_prediction_begin(c)
    \/ \E c \in Calls : log_prediction_body(c)
    \/ \E c \in Calls : get_accuracy_metrics_begin(c)
    \/ \E c \in Calls : get_accuracy_metrics_query(c)
    \/ \E c \in Calls : get_learning_summary_begin(c)
    \/ \E c \in Calls : get_learning_summary_retrains(c)
    \/ \E c \in Calls : get_learning_summary_events(c)
    \/ metrics_upsert

Spec == Init /\ [][Next]_vars

\* ------------------------------------------------------------- what the claims read
RECURSIVE SumCopies(_, _)
SumCopies(B, S) ==
    IF S = {} THEN 0
    ELSE LET e == CHOOSE x \in S : TRUE IN B[e] + SumCopies(B, S \ {e})

\* the number of learning events of a type that call c has appended
EventCount(c, event_type) ==
    SumCopies(continuous_learning_log,
              {e \in BagToSet(continuous_learning_log) :
                  e.by = c /\ e.event_type = event_type})

ResultsBy(c) == {r \in prediction_results : r.by = c}
TriggersBy(c) == {t \in model_retraining_triggers : t.by = c}
VerifiedByOther(c) ==
    \E r \in prediction_results : r.prediction_id = arg[c] /\ r.by # c
Persistent == <<predictions, prediction_results, model_retraining_triggers,
                continuous_learning_log>>
Verifying(c) == op[c] = "verify_result" /\ pc[c] # "idle"
AfterCommit == {"v_select", "v_log", "r_select", "r_insert", "r_commit", "r_log",
                "v_return"}

\* the trigger policy as the claims state it: at least 50 predictions, rate below 70%
TriggerPolicy(row) ==
    /\ row # <<>>
    /\ row[1].total_predictions >= 50
    /\ row[1].accuracy_rate < 700

\* trigger rows written by anyone, committed or still in an open transaction
InsertedTriggers ==
    model_retraining_triggers \cup
    UNION {tx[c].model_retraining_triggers : c \in Calls}

\* ------------------------------------------------------------- C1
\* a call on a stored id, with no row of another call and no store failure,
\* has returned a result and left its own row
C1_FirstSucceeds ==
    \A c \in Calls :
        (Verifying(c) /\ pc[c] = "done" /\ faulted[c] = "no"
            /\ arg[c] \in StoredIds /\ ~VerifiedByOther(c))
        => /\ outcome[c] = "ok"
           /\ ret[c] # <<>>
           /\ ResultsBy(c) = {[prediction_id |-> arg[c], by |-> c]}

\* a step of a call whose id another call has verified ends the call with an
\* error and changes no table
C1_SecondFailsUnchanged ==
    \A c \in Calls :
        (Verifying(c) /\ pc'[c] # pc[c] /\ VerifiedByOther(c))
        => /\ Persistent' = Persistent
           /\ pc'[c] = "done"
           /\ outcome'[c] \in {"UniqueViolation", "StorageError"}
           /\ (outcome'[c] = "StorageError" => faulted'[c] # "no")
           /\ ret'[c] = <<>>

\* C1: verifying an id twice in sequence: the first call (stored id, no row of
\* another call, no store failure) returns a result and leaves its row; every
\* step of a call whose id has been verified by another call ends that call at
\* once with the uniqueness error (or the store's own failure) and leaves
\* predictions, results, triggers and learning events exactly as they were.
C1_VerifyTwice == []C1_FirstSucceeds /\ [][C1_SecondFailsUnchanged]_vars

\* the first call returned a result, the second was refused and left nothing
C1_Witness ==
    \E c, d \in Calls :
        /\ c # d /\ arg[c] = arg[d]
        /\ Verifying(c) /\ pc[c] = "done" /\ outcome[c] = "ok"
        /\ Verifying(d) /\ pc[d] = "done" /\ outcome[d] = "UniqueViolation"
        /\ ResultsBy(d) = {} /\ EventCount(d, "result_verified") = 0

\* ------------------------------------------------------------- C2
\* C2: whatever the interleaving, a prediction id has at most one verification
\* row, and once every call verifying a stored id has ended without a store
\* failure, exactly one of them has succeeded and all the others have failed
\* with the uniqueness error.
C2_ExactlyOneSucceeds ==
    \A p \in VerifyIds :
        LET on == {c \in Calls : Verifying(c) /\ arg[c] = p} IN
        /\ Cardinality({r \in prediction_results : r.prediction_id = p}) <= 1
        /\ (/\ on # {}
            /\ p \in StoredIds
            /\ \A c \in on : pc[c] = "done" /\ faulted[c] = "no")
           => /\ Cardinality({c \in on : outcome[c] = "ok"}) = 1
              /\ \A c \in on : outcome[c] \in {"ok", "UniqueViolation"}

\* a call is refused while the call that verified the id is still running
C2_Witness ==
    \E c, d \in Calls :
        /\ c # d /\ arg[c] = arg[d] /\ Verifying(c) /\ Verifying(d)
        /\ pc[c] \in AfterCommit /\ ResultsBy(c) # {}
        /\ pc[d] = "done" /\ outcome[d] = "UniqueViolation"

\* ------------------------------------------------------------- C3
\* C3: no two trigger rows are ever written, committed or not, for the same
\* sport from the same version of the daily metric row.
C3_OneTriggerPerDrop ==
    \A t, u \in InsertedTriggers :
        (t.sport = u.sport /\ t.at = u.at) => t = u

\* ------------------------------------------------------------- C4
\* C4: an evaluation that read a metric row meeting the policy and met no store
\* failure has, when it is over, committed exactly one trigger row carrying the
\* accuracy it read, and appended one retrain_triggered event.
C4_TriggerPersisted ==
    \A c \in Calls :
        (Verifying(c) /\ pc[c] = "v_return" /\ faulted[c] = "no"
            /\ TriggerPolicy(metric_row[c]))
        => /\ Cardinality(TriggersBy(c)) = 1
           /\ \A t \in TriggersBy(c) : t.accuracy = metric_row[c][1].accuracy_rate
           /\ EventCount(c, "retrain_triggered") = 1

\* ------------------------------------------------------------- C5
\* C5: a call whose evaluation found no metric row, or a row with fewer than 50
\* predictions, or a rate of 70% or more, never reaches the trigger INSERT,
\* writes no trigger row and appends no retrain_triggered event; every trigger
\* row ever written carries a rate below 70%.
C5_NoTriggerOffPolicy ==
    /\ \A c \in Calls :
        (Verifying(c) /\ pc[c] # "done" /\ ~TriggerPolicy(metric_row[c]))
        => /\ pc[c] \notin {"r_insert", "r_commit", "r_log"}
           /\ tx[c].model_retraining_triggers = {}
           /\ TriggersBy(c) = {}
           /\ EventCount(c, "retrain_triggered") = 0
    /\ \A t \in InsertedTriggers : t.accuracy < 700

\* an evaluation has read a row at exactly 70% and is about to return
C5_Witness ==
    \E c \in Calls :
        /\ Verifying(c) /\ pc[c] = "v_return" /\ faulted[c] = "no"
        /\ metric_row[c] # <<>>
        /\ metric_row[c][1].total_predictions >= 50
        /\ metric_row[c][1].accuracy_rate = 700
        /\ InsertedTriggers = {}

\* ------------------------------------------------------------- C6
\* C6: a verify_result call on an id that is not stored never gets past its
\* INSERT, ends with the foreign-key error (or the store's own failure) and
\* leaves no verification row, no result_verified event and no trigger.
C6_UnknownIdPersistsNothing ==
    \A c \in Calls :
        (Verifying(c) /\ arg[c] \notin KnownIds)
        => /\ pc[c] \in {"v_insert", "done"}
           /\ tx[c] = EmptyTx
           /\ arg[c] \notin VerifiedIds
           /\ ResultsBy(c) = {} /\ TriggersBy(c) = {}
           /\ EventCount(c, "result_verified") = 0
           /\ pc[c] = "done" =>
                 \/ outcome[c] = "ForeignKeyViolation" /\ ret[c] = <<>>
                 \/ outcome[c] = "StorageError" /\ faulted[c] # "no"

C6_Witness ==
    \E c \in Calls :
        /\ Verifying(c) /\ arg[c] \notin KnownIds
        /\ pc[c] = "done" /\ outcome[c] = "ForeignKeyViolation"
        /\ BagToSet(continuous_learning_log) = {}

C8_PredictionLogged ==
    \A c \in Calls :
        (op[c] = "log_prediction" /\ pc[c] = "done" /\ faulted[c] = "no")
        => /\ outcome[c] = "ok"
           /\ ret[c] # <<>>
           /\ [prediction_id |-> ret[c][1], sport |-> sport[c]] \in predictions
           /\ EventCount(c, "prediction_made") = 1
           /\ \A d \in Calls \ {c} :
                 (op[d] = "log_prediction" /\ pc[d] = "done" /\ outcome[d] = "ok")
                 => ret[d] # ret[c]

\* ------------------------------------------------------------- C9
\* C9: a verify_result call in which the store failed a statement of the
\* retraining evaluation does not return a result: it ends with an error.
C9_EvaluationFailureSurfaced ==
    \A c \in Calls :
        (Verifying(c) /\ pc[c] = "done"
            /\ faulted[c] \in {"r_select", "r_insert", "r_commit", "r_log"})
        => outcome[c] # "ok"

\* ------------------------------------------------------------- C10
\* C10: a get_accuracy_metrics or get_learning_summary call in which the store
\* failed a statement ends with an error, not with a returned value.
C10_QueryFailureExplicit ==
    \A c \in Calls :
        (op[c] \in {"get_accuracy_metrics", "get_learning_summary"}
            /\ pc[c] = "done" /\ faulted[c] # "no")
        => outcome[c] # "ok"

\* ------------------------------------------------------------- float arithmetic
(***************************************************************************)
(* Python floats and numpy float64 are IEEE 754 binary64.  A finite value  *)
(* is kept exactly as (-1)^s * m * 2^e with m a natural number of at most  *)
(* 53 bits, odd unless the value is zero; every operation computes the     *)
(* exact result and rounds it to the nearest such value, ties to even.     *)
(* Naturals wider than a machine integer are little-endian sequences of    *)
(* limbs.  The exponent range is not modelled (no overflow or subnormal    *)
(* value arises from the magnitudes analysed) and -0.0 is kept as 0.0.     *)
(* nan comes from 0.0 / 0.0 and spreads through every operation; every     *)
(* comparison with nan is false.                                           *)
(***************************************************************************)
LimbBits == 7 * 2
Base == 2^LimbBits
MantissaBits == 50 + 3

\* Operators take their operands by value, as the machine does: p and q name
\* the operands as written by the caller, a and b their values.
Limb(a, i) == IF i <= Len(a) THEN a[i] ELSE 0

\* a without its leading zero limbs
NatTrim(p) ==
    CHOOSE v \in {
        SubSeq(a, 1, CHOOSE n \in 0..Len(a) :
                         /\ n = 0 \/ a[n] # 0
                         /\ \A h \in (n + 1)..Len(a) : a[h] = 0)
        : a \in {p}} : TRUE

RECURSIVE NatOf(_)
NatOf(n) == IF n = 0 THEN <<>> ELSE <<n % Base>> \o NatOf(n \div Base)

\* a + b: limb i takes a carry if a limb below it overflows and every limb
\* between them is full
NatAdd(p, q) ==
    CHOOSE v \in {
        LET sum(i) == Limb(a, i) + Limb(b, i)
            carry(i) == IF \E j \in 1..(i - 1) :
                               /\ sum(j) >= Base
                               /\ \A h \in (j + 1)..(i - 1) : sum(h) = Base - 1
                        THEN 1 ELSE 0
            n == IF Len(a) < Len(b) THEN Len(b) ELSE Len(a)
        IN  NatTrim([i \in 1..(n + 1) |-> (sum(i) + carry(i)) % Base])
        : a \in {p}, b \in {q}} : TRUE

\* a - b for a >= b: limb i lends if a limb below it is short and every limb
\* between them is level
NatSub(p, q) ==
    CHOOSE v \in {
        LET borrow(i) == IF \E j \in 1..(i - 1) :
                                /\ a[j] < Limb(b, j)
                                /\ \A h \in (j + 1)..(i - 1) : a[h] = Limb(b, h)
                         THEN 1 ELSE 0
        IN  NatTrim([i \in 1..Len(a) |-> (a[i] - Limb(b, i) - borrow(i)) % Base])
        : a \in {p}, b \in {q}} : TRUE

NatLess(p, q) ==
    \E a \in {p}, b \in {q} :
        \/ Len(a) < Len(b)
        \/ /\ Len(a) = Len(b)
           /\ \E i \in 1..Len(a) :
                /\ a[i] < b[i]
                /\ \A h \in (i + 1)..Len(a) : a[h] = b[h]

\* a * d for one limb d: the low limbs of the products plus their high limbs
NatMulLimb(p, digit) ==
    CHOOSE v \in {
        NatAdd([i \in 1..Len(a) |-> (a[i] * d) % Base],
               <<0>> \o [i \in 1..Len(a) |-> (a[i] * d) \div Base])
        : a \in {p}, d \in {digit}} : TRUE

RECURSIVE NatMulFrom(_, _, _)
NatMulFrom(a, b, j) ==
    IF j > Len(b) THEN <<>>
    ELSE NatAdd(NatMulLimb(a, b[j]), <<0>> \o NatMulFrom(a, b, j + 1))
NatMul(p, q) ==
    CHOOSE v \in {NatMulFrom(a, b, 1) : a \in {p}, b \in {q}} : TRUE

Zeros(n) == [i \in 1..n |-> 0]

\* a * 2^k
NatShl(p, bits) ==
    CHOOSE v \in {
        IF a = <<>> THEN <<>>
        ELSE Zeros(k \div LimbBits) \o NatMulLimb(a, 2^(k % LimbBits))
        : a \in {p}, k \in {bits}} : TRUE

\* a \div 2^k
NatShr(p, bits) ==
    CHOOSE v \in {
        IF Len(a) <= q THEN <<>>
        ELSE NatTrim([i \in 1..(Len(a) - q) |->
                 (a[q + i] \div 2^r) + (Limb(a, q + i + 1) % 2^r) * 2^(LimbBits - r)])
        : a \in {p}, q \in {bits \div LimbBits}, r \in {bits % LimbBits}} : TRUE

\* a % 2^k # 0
NatLowBits(p, bits) ==
    \E a \in {p}, q \in {bits \div LimbBits}, r \in {bits % LimbBits} :
        \/ \E i \in 1..q : Limb(a, i) # 0
        \/ Limb(a, q + 1) % 2^r # 0

NatBit(p, bits) ==
    CHOOSE v \in {(Limb(a, k \div LimbBits + 1) \div 2^(k % LimbBits)) % 2 :
                     a \in {p}, k \in {bits}} : TRUE

LimbLen(d) == CHOOSE n \in 0..LimbBits : d < 2^n /\ (n = 0 \/ d >= 2^(n - 1))
NatBitLen(p) ==
    CHOOSE v \in {IF a = <<>> THEN 0 ELSE LimbBits * (Len(a) - 1) + LimbLen(a[Len(a)]) :
                     a \in {p}} : TRUE

\* the number of zero bits below the lowest one bit of a # 0
NatTrailingZeros(p) ==
    CHOOSE v \in {
        LET i == CHOOSE j \in 1..Len(a) : a[j] # 0 /\ \A h \in 1..(j - 1) : a[h] = 0
        IN  LimbBits * (i - 1) + (CHOOSE n \in 0..(LimbBits - 1) : a[i] % 2^(n + 1) = 2^n)
        : a \in {p}} : TRUE

\* the digit a \div b for a < b * Base and a divisor b whose top limb has its
\* top bit set: at most 2 below the quotient of the top limbs (Knuth, 4.3.1)
NatDivDigit(a, b) ==
    LET n == Len(b)
        top == (Limb(a, n + 1) * Base + Limb(a, n)) \div b[n]
        est == IF top < Base THEN top ELSE Base - 1
    IN  CHOOSE d \in (IF est < 2 THEN 0 ELSE est - 2)..est :
            /\ ~NatLess(a, NatMulLimb(b, d))
            /\ NatLess(a, NatMulLimb(b, d + 1))

\* <<the digit a \div b, a % b>>
NatDivStep(p, b) ==
    CHOOSE v \in {<<NatDivDigit(a, b), NatSub(a, NatMulLimb(b, NatDivDigit(a, b)))>> :
                     a \in {p}} : TRUE

\* long division from the top limb i of a down: the digits found and the rest
RECURSIVE NatDivModFrom(_, _, _, _, _)
NatDivModFrom(a, b, i, quot, rem) ==
    IF i = 0 THEN <<quot, rem>>
    ELSE CHOOSE v \in {NatDivModFrom(a, b, i - 1, <<step[1]>> \o quot, step[2]) :
                          step \in {NatDivStep(NatTrim(<<a[i]>> \o rem), b)}} : TRUE

\* <<a \div b, r>> for b # 0, where r = <<>> exactly if a % b = 0: both are
\* shifted until the top limb of b has its top bit set
NatDivMod(p, q) ==
    CHOOSE v \in {
        CHOOSE w \in {<<NatTrim(qr[1]), qr[2]>> :
                         qr \in {NatDivModFrom(a, b, Len(a), <<>>, <<>>)}} : TRUE
        : a \in {NatShl(p, LimbBits - LimbLen(q[Len(q)]))},
          b \in {NatShl(q, LimbBits - LimbLen(q[Len(q)]))}} : TRUE

\* the largest root + x * Base^i, x in the digits d .. d + 2^j - 1, whose square
\* is <= a, found two bits at a time
RECURSIVE NatSqrtDigit(_, _, _, _, _)
NatSqrtDigit(a, root, i, j, d) ==
    IF j = 0 THEN NatAdd(root, Zeros(i) \o NatOf(d))
    ELSE CHOOSE v \in {NatSqrtDigit(a, root, i, j - 2, next) :
             next \in {d + 2^(j - 2) *
                           Cardinality({x \in 1..3 :
                               \E t \in {NatAdd(root, Zeros(i) \o NatOf(d + x * 2^(j - 2)))} :
                                   ~NatLess(a, NatMul(t, t))})}} : TRUE

\* the largest r with r * r <= a, limb i + 1 of r downwards
RECURSIVE NatSqrtFrom(_, _, _)
NatSqrtFrom(a, i, root) ==
    IF i < 0 THEN root
    ELSE CHOOSE v \in {NatSqrtFrom(a, i - 1, next) :
                          next \in {NatSqrtDigit(a, root, i, LimbBits, 0)}} : TRUE
NatSqrt(p) == CHOOSE v \in {NatSqrtFrom(a, Len(a) \div 2, <<>>) : a \in {p}} : TRUE

NaN == [k |-> "nan", s |-> 0, m |-> <<>>, e |-> 0]
Inf(s) == [k |-> "inf", s |-> s, m |-> <<>>, e |-> 0]
Zero == [k |-> "num", s |-> 0, m |-> <<>>, e |-> 0]

\* (-1)^s * m * 2^e with m of at most 53 bits
Finite(s, p, e) ==
    CHOOSE v \in {
        IF m = <<>> THEN Zero
        ELSE CHOOSE w \in {[k |-> "num", s |-> s, m |-> NatShr(m, z), e |-> e + z] :
                              z \in {NatTrailingZeros(m)}} : TRUE
        : m \in {p}} : TRUE

\* (-1)^s * m * 2^e rounded to 53 bits, to nearest, ties to even
Round(s, p, e) ==
    CHOOSE v \in {
        CHOOSE w \in {
            IF d <= 0 THEN Finite(s, m, e)
            ELSE CHOOSE x \in {
                     Finite(s,
                            IF /\ NatBit(m, d - 1) = 1
                               /\ NatLowBits(m, d - 1) \/ NatBit(q, 0) = 1
                            THEN NatAdd(q, <<1>>) ELSE q,
                            e + d)
                     : q \in {NatShr(m, d)}} : TRUE
            : d \in {NatBitLen(m) - MantissaBits}} : TRUE
        : m \in {p}} : TRUE

\* float(n) of an int n
float(n) == IF n < 0 THEN Finite(1, NatOf(-n), 0) ELSE Finite(0, NatOf(n), 0)

IsNum(x) == x.k = "num"
IsZero(x) == x.k = "num" /\ x.m = <<>>

float_neg(p) ==
    CHOOSE v \in {IF IsNum(x) /\ ~IsZero(x) THEN [x EXCEPT !.s = 1 - x.s] ELSE x :
                  x \in {p}} : TRUE
float_abs(p) ==
    CHOOSE v \in {IF x.k = "nan" THEN x ELSE [x EXCEPT !.s = 0] : x \in {p}} : TRUE

float_mul(p, q) ==
    CHOOSE v \in {
        IF ~IsNum(x) \/ ~IsNum(y) THEN NaN
        ELSE Round((x.s + y.s) % 2, NatMul(x.m, y.m), x.e + y.e)
        : x \in {p}, y \in {q}} : TRUE

float_add(p, q) ==
    CHOOSE v \in {
        IF ~IsNum(x) \/ ~IsNum(y) THEN NaN
        ELSE LET e == IF x.e < y.e THEN x.e ELSE y.e
                 a == NatShl(x.m, x.e - e)
                 b == NatShl(y.m, y.e - e)
             IN  IF x.s = y.s THEN Round(x.s, NatAdd(a, b), e)
                 ELSE IF NatLess(a, b) THEN Round(y.s, NatSub(b, a), e)
                 ELSE Round(x.s, NatSub(a, b), e)
        : x \in {p}, y \in {q}} : TRUE

float_sub(x, y) == float_add(x, float_neg(y))

\* x / y of numpy (true_divide): a zero divisor gives nan or inf with a warning
float_div(p, q) ==
    CHOOSE v \in {
        IF ~IsNum(x) \/ ~IsNum(y) THEN NaN
        ELSE IF IsZero(y) THEN (IF IsZero(x) THEN NaN ELSE Inf((x.s + y.s) % 2))
        ELSE IF IsZero(x) THEN Zero
        ELSE LET need == MantissaBits + 3 + NatBitLen(y.m) - NatBitLen(x.m)
                 k == IF need > 0 THEN need ELSE 0
                 sticky(qr) == IF qr[2] = <<>> THEN 0 ELSE 1
             IN  CHOOSE w \in {
                     Round((x.s + y.s) % 2,
                           NatAdd(NatMulLimb(qr[1], 2), NatOf(sticky(qr))),
                           x.e - y.e - k - 1)
                     : qr \in {NatDivMod(NatShl(x.m, k), y.m)}} : TRUE
        : x \in {p}, y \in {q}} : TRUE

\* np.sqrt
float_sqrt(p) ==
    CHOOSE v \in {
        IF ~IsNum(x) THEN NaN
        ELSE IF IsZero(x) THEN Zero
        ELSE IF x.s = 1 THEN NaN
        ELSE LET need == 2 * (MantissaBits + 2) - NatBitLen(x.m)
                 k0 == IF need > 0 THEN need ELSE 0
                 k == IF (x.e - k0) % 2 = 0 THEN k0 ELSE k0 + 1
                 sticky(a, r) == IF NatMul(r, r) = a THEN 0 ELSE 1
             IN  CHOOSE w \in {
                     CHOOSE u \in {
                         Round(0, NatAdd(NatMulLimb(r, 2), NatOf(sticky(a, r))),
                               (x.e - k) \div 2 - 1)
                         : r \in {NatSqrt(a)}} : TRUE
                     : a \in {NatShl(x.m, k)}} : TRUE
        : x \in {p}} : TRUE

\* x < y and x > y; every comparison with nan is false
float_lt(p, q) ==
    \E x \in {p}, y \in {q} :
        /\ IsNum(x) /\ IsNum(y)
        /\ LET e == IF x.e < y.e THEN x.e ELSE y.e
               a == NatShl(x.m, x.e - e)
               b == NatShl(y.m, y.e - e)
           IN  IF x.s # y.s THEN x.s = 1 /\ ~(IsZero(x) /\ IsZero(y))
               ELSE IF x.s = 0 THEN NatLess(a, b) ELSE NatLess(b, a)
float_gt(x, y) == float_lt(y, x)

\* np.rint: the nearest integer, a tie to the even one
float_rint(p) ==
    CHOOSE v \in {
        IF ~IsNum(x) \/ x.e >= 0 THEN x
        ELSE LET q == NatShr(x.m, -x.e)
                 up == /\ NatBit(x.m, -x.e - 1) = 1
                       /\ NatLowBits(x.m, -x.e - 1) \/ NatBit(q, 0) = 1
             IN  Finite(x.s, IF up THEN NatAdd(q, <<1>>) ELSE q, 0)
        : x \in {p}} : TRUE

\* a decimal literal such as 0.55: the binary64 nearest to num/den
literal(num, den) == float_div(float(num), float(den))

\* ------------------------------------------------------------- numpy reductions
\* self.recent_games = 5 and self.trend_games = 3
recent_games == 5
trend_games == 3

\* np.array(values): the values as float64
array(values) == [i \in 1..Len(values) |-> float(values[i])]

\* the window one game short: values[-(n - 1):]
last_but_one_short(values, n) ==
    IF Len(values) <= n - 1 THEN values
    ELSE SubSeq(values, Len(values) - n + 2, Len(values))

\* values[-n:]
last(values, n) ==
    IF Len(values) <= n THEN values ELSE SubSeq(values, Len(values) - n + 1, Len(values))

\* res += a[i] for i = first .. i, in this order
RECURSIVE add_each(_, _, _, _)
add_each(a, first, i, res) ==
    IF i < first THEN res ELSE float_add(add_each(a, first, i - 1, res), a[i])

\* r[j] of the unrolled loop: a[j] + a[j + 8] + ... over the first `blocks` blocks of 8
RECURSIVE lane(_, _, _)
lane(a, j, blocks) ==
    IF blocks = 1 THEN a[j] ELSE float_add(lane(a, j, blocks - 1), a[j + 8 * (blocks - 1)])

\* np.add.reduce of a float64 array of at most 128 elements: numpy sums fewer
\* than 8 elements in order and longer arrays in 8 lanes that it adds pairwise
add_reduce(a) ==
    LET n == Len(a)
        blocks == n \div 8
        r(j) == lane(a, j, blocks)
    IN  IF n < 8 THEN add_each(a, 1, n, Zero)
        ELSE add_each(a, 8 * blocks + 1, n,
                 float_add(float_add(float_add(r(1), r(2)), float_add(r(3), r(4))),
                           float_add(float_add(r(5), r(6)), float_add(r(7), r(8)))))

\* np.mean: the sum divided by the count; nan (with a warning) for no element
np_mean(a) == float_div(add_reduce(a), float(Len(a)))

\* np.std(a, ddof): sqrt(sum((a - mean)^2) / max(n - ddof, 0)); nan for n <= ddof
np_std(a, ddof) ==
    CHOOSE v \in {
        LET x == [i \in DOMAIN arr |-> float_sub(arr[i], arrmean)]
            xx == [i \in DOMAIN arr |-> float_mul(x[i], x[i])]
            rcount == IF Len(arr) - ddof > 0 THEN Len(arr) - ddof ELSE 0
        IN  float_sqrt(float_div(add_reduce(xx), float(rcount)))
        : arr \in {a}, arrmean \in {np_mean(a)}} : TRUE

\* round(x, 2) of a numpy float64: np.round multiplies by 100, rounds to the
\* nearest integer and divides by 100
np_round2(x) == float_div(float_rint(float_mul(x, float(100))), float(100))

\* np.percentile of an array without elements: numpy from 1.22 on raises
\* IndexError, older numpy returns nan with a warning
percentile_of_empty == {"IndexError", "nan"}

\* ------------------------------------------------------------- the analysis engine
\* AntiRecencyEngine.__init__ with the weights given in hundredths
AntiRecencyEngine(season_baseline_weight, recent_form_weight) ==
    [season_baseline_weight |-> literal(season_baseline_weight, 100),
     recent_form_weight |-> literal(recent_form_weight, 100)]

\* BaselineData; median, floor and ceiling are numbers nothing in analyze_prop
\* reads and no claim is about: of np.percentile only the exception is kept
_calculate_baseline(values) ==
    LET arr == array(values)
    IN  [mean |-> np_mean(arr), std_dev |-> np_std(arr, 1), sample_size |-> Len(values)]

\* the rungs tried in another order: a large edge first
_assess_confidence_edge_first(sample_size, edge, is_outlier) ==
    IF sample_size < 5 THEN "insufficient"
    ELSE IF sample_size >= 10 /\ float_gt(edge, float(8)) THEN "high"
    ELSE IF is_outlier \/ float_lt(edge, float(3)) THEN "low"
    ELSE "medium"

_assess_confidence(sample_size, edge, is_outlier) ==
    IF sample_size < 5 THEN "insufficient"
    ELSE IF is_outlier \/ float_lt(edge, float(3)) THEN "low"
    ELSE IF sample_size >= 10 /\ float_gt(edge, float(8)) THEN "high"
    ELSE "medium"

\* line 85
z_score_of(recent_mean, baseline) ==
    IF float_gt(baseline.std_dev, Zero)
    THEN float_abs(float_div(float_sub(recent_mean, baseline.mean), baseline.std_dev))
    ELSE Zero

\* an outlier from a z-score of 2.0 on
is_outlier_of_inclusive(z_score) == IsNum(z_score) /\ ~float_lt(z_score, float(2))

\* line 86
is_outlier_of(z_score) == float_gt(z_score, float(2))

\* the synthesis without its last term, the remainder applied to the baseline mean
weighted_synthesis_without_remainder(self, baseline, adjusted_recent, trend_mean) ==
    float_add(
        float_add(float_mul(baseline.mean, self.season_baseline_weight),
                  float_mul(adjusted_recent, self.recent_form_weight)),
        float_mul(trend_mean, literal(5, 100)))

\* lines 99-104, added left to right
weighted_synthesis(self, baseline, adjusted_recent, trend_mean) ==
    float_add(
        float_add(
            float_add(float_mul(baseline.mean, self.season_baseline_weight),
                      float_mul(adjusted_recent, self.recent_form_weight)),
            float_mul(trend_mean, literal(5, 100))),
        float_mul(baseline.mean,
            float_sub(float_sub(float_sub(float(1), self.season_baseline_weight),
                                self.recent_form_weight),
                      literal(5, 100))))

\* the edge computed against any line
edge_of_any_line(final_projection, prop_line) ==
    float_mul(float_div(float_sub(final_projection, prop_line), prop_line), float(100))

\* line 107
edge_of(final_projection, prop_line) ==
    IF float_gt(prop_line, Zero)
    THEN float_mul(float_div(float_sub(final_projection, prop_line), prop_line), float(100))
    ELSE Zero

\* a play recommended from an edge of 5 percent on
recommended_play_inclusive(edge) ==
    IF ~float_lt(float_abs(edge), float(5)) /\ IsNum(edge)
    THEN (IF float_gt(edge, Zero) THEN "OVER" ELSE "UNDER")
    ELSE "None"

\* lines 110-112
recommended_play_of(edge) ==
    IF float_gt(float_abs(edge), float(5))
    THEN (IF float_gt(edge, Zero) THEN "OVER" ELSE "UNDER")
    ELSE "None"

\* lines 116-132
WeightedProjection(self, player_id, prop_type, prop_line, locals) ==
    [player_id |-> player_id, prop_type |-> prop_type, prop_line |-> prop_line,
     season_baseline |-> locals.baseline.mean,
     final_projection |-> locals.final_projection,
     edge_percentage |-> locals.edge,
     confidence_level |-> locals.confidence_level,
     recommended_play |-> locals.recommended_play,
     weights_applied |-> [baseline |-> self.season_baseline_weight,
                          recent |-> self.recent_form_weight,
                          trend |-> literal(5, 100)]]

\* ------------------------------------------------------------- calls of the engine
MaxSeason == 21     \* the longest run of earlier games in a value series

\* the value series analysed: a season of scoreless games, at most one game
\* at 4 and a run of recent games at one level
Levels == {0, 4, 19, 20, 21, 27}
SeasonGames == {0, MaxSeason - 1, MaxSeason}
RecentRuns == {0, 1, recent_games, 2 * recent_games}
Run(v, n) == [i \in 1..n |-> v]
\* series no longer than the recent window whose values vary
ShortSeries == {<<10, 12, 9, 11, 50>>, <<0, 0, 0, 0, 27>>, <<50, 10, 12>>}
SeriesChoices ==
    {Run(0, p) \o Run(4, q) \o Run(c, r) :
        p \in SeasonGames, q \in 0..1, c \in Levels, r \in RecentRuns}
    \cup ShortSeries
PropLines == {-20, 0, 20, 25}
\* the weights of workflow_routes.py and of settings.py, and another pair
WeightChoices == {<<55, 13>>, <<60, 15>>}

engine_init ==
    /\ analysis_engine = <<>>
    /\ \E w \in WeightChoices : analysis_engine' = <<AntiRecencyEngine(w[1], w[2])>>
    /\ UNCHANGED <<call, frame, projection, raised, request, response>>
    /\ UNCHANGED <<vars, infrastructure_vars>>

\* analyze_prop called with one of the arguments given: every local is computed
\* once, in the order of the code (the locals down to final_projection are those
\* of the game values, whatever the line); the call, its locals at the return
\* statement and the projection returned are appended to those of the calls before
analyze_prop_of(Arguments) ==
    /\ analysis_engine # <<>>
    /\ \E game_values \in {a.game_values : a \in Arguments} :
       \E percentile \in (IF game_values = <<>> THEN percentile_of_empty ELSE {"ok"}) :
        IF percentile = "IndexError"
        THEN \E args \in {a \in Arguments : a.game_values = game_values} :
                /\ call' = Append(call, args)
                /\ raised' = "IndexError"
                /\ UNCHANGED <<frame, projection>>
        ELSE \E self \in {analysis_engine[1]} :
             \E baseline \in {_calculate_baseline(game_values)} :
             \E recent_mean \in {np_mean(array(last(game_values, recent_games)))} :
             \E z_score \in {z_score_of(recent_mean, baseline)} :
             \E is_outlier \in {is_outlier_of(z_score)} :
             \E adjusted_recent \in {IF is_outlier THEN baseline.mean ELSE recent_mean} :
             \E trend_mean \in {np_mean(array(last(game_values, trend_games)))} :
             \E final_projection \in
                    {weighted_synthesis(self, baseline, adjusted_recent, trend_mean)} :
             \E args \in {a \in Arguments : a.game_values = game_values} :
             \E edge \in {edge_of(final_projection, float(args.prop_line))} :
             \E locals \in
                    {[baseline |-> baseline, recent_mean |-> recent_mean,
                      z_score |-> z_score, is_outlier |-> is_outlier,
                      adjusted_recent |-> adjusted_recent, trend_mean |-> trend_mean,
                      final_projection |-> final_projection, edge |-> edge,
                      recommended_play |-> recommended_play_of(edge),
                      confidence_level |->
                          _assess_confidence(Len(game_values), float_abs(edge),
                                             is_outlier)]} :
                 /\ call' = Append(call, args)
                 /\ raised' = "no"
                 /\ frame' = Append(frame, locals)
                 /\ projection' =
                      Append(projection,
                             WeightedProjection(self, args.player_id, args.prop_type,
                                                args.prop_line, locals))

\* one call of the engine; the engine keeps nothing from one call to the next
analyze_prop ==
    /\ call = <<>>
    /\ analyze_prop_of({[player_id |-> 1, prop_type |-> "points",
                         prop_line |-> prop_line, game_values |-> game_values] :
                            prop_line \in PropLines, game_values \in SeriesChoices})
    /\ UNCHANGED <<analysis_engine, request, response>>
    /\ UNCHANGED <<vars, infrastructure_vars>>

EngineNext == engine_init \/ analyze_prop

EngineSpec == Init /\ [][EngineNext]_<<vars, workflow_vars>>

\* ------------------------------------------------------------- the workflow routes
MaxProps == 2       \* the most props in one batch request

required == <<"player_id", "prop_type", "prop_line", "game_values">>

\* JSON objects are functions of their keys
Without(object, key) == [k \in DOMAIN object \ {key} |-> object[k]]

\* the props requested: complete ones, one of them with no game, and props that
\* lack one required field
CompleteProps ==
    {[player_id |-> 1, prop_type |-> "points", prop_line |-> 20, game_values |-> values] :
        values \in {Run(20, 2 * recent_games), Run(27, 2 * recent_games), <<>>}}
PropChoices ==
    CompleteProps
    \cup {Without([player_id |-> 1, prop_type |-> "points", prop_line |-> 20,
                   game_values |-> Run(20, 2 * recent_games)], required[i]) :
              i \in DOMAIN required}

\* request.get_json() of the requests sent: <<>> for the body null, else <<data>>
AnalyzePropBodies == {<<>>} \cup {<<prop>> : prop \in PropChoices}
BatchBodies ==
    {<<>>, <<[items |-> <<>>]>>}
    \cup {<<[props |-> props]>> : props \in UNION {[1..n -> PropChoices] : n \in 0..MaxProps}}

\* jsonify(body), status
Response(status, body) == [status |-> status, body |-> body]

\* the first required field that data lacks, 0 for none (lines 54-57)
RECURSIVE missing_field(_, _)
missing_field(data, i) ==
    IF i > Len(required) THEN 0
    ELSE IF required[i] \notin DOMAIN data THEN i
    ELSE missing_field(data, i + 1)

\* the keyword arguments of analysis_engine.analyze_prop (lines 59-62, 116-120)
arguments(data) ==
    [player_id |-> data.player_id, prop_type |-> data.prop_type,
     prop_line |-> data.prop_line, game_values |-> data.game_values]

\* lines 74-87; floor and ceiling, the percentiles, are left out
analyze_prop_response(result) ==
    [player_id |-> result.player_id,
     prop_type |-> result.prop_type,
     prop_line |-> result.prop_line,
     season_baseline |-> np_round2(result.season_baseline),
     final_projection |-> np_round2(result.final_projection),
     edge_percentage |-> np_round2(result.edge_percentage),
     edge_direction |-> IF float_gt(result.edge_percentage, Zero) THEN "OVER" ELSE "UNDER",
     confidence_level |-> result.confidence_level,
     recommended_play |-> result.recommended_play,
     weights_applied |-> result.weights_applied]

\* lines 123-130
batch_result(result) ==
    [player_id |-> result.player_id,
     prop_type |-> result.prop_type,
     final_projection |-> np_round2(result.final_projection),
     edge_percentage |-> np_round2(result.edge_percentage),
     confidence_level |-> result.confidence_level,
     recommended_play |-> result.recommended_play]

Handling(endpoint) ==
    /\ request # <<>>
    /\ request[1].endpoint = endpoint
    /\ response = <<>>

\* POST /analyze-prop, lines 50-57: the body is read and validated
route_analyze_prop_begin ==
    /\ analysis_engine # <<>>
    /\ request = <<>>
    /\ \E json \in AnalyzePropBodies :
        /\ request' = <<[endpoint |-> "analyze-prop", json |-> json]>>
        /\ IF json = <<>>
           THEN \* `field not in None` raises; lines 90-92
                /\ raised' = "TypeError"
                /\ response' = <<Response(500, [error |-> "TypeError"])>>
           ELSE IF missing_field(json[1], 1) # 0
           THEN /\ raised' = "no"
                /\ response' =
                     <<Response(400,
                           [error |-> "Missing required field",
                            field |-> required[missing_field(json[1], 1)]])>>
           ELSE /\ raised' = "no"
                /\ response' = <<>>
    /\ UNCHANGED <<analysis_engine, call, frame, projection>>
    /\ UNCHANGED <<vars, infrastructure_vars>>

\* lines 59-71
route_analyze_prop_call ==
    /\ Handling("analyze-prop")
    /\ call = <<>>
    /\ analyze_prop_of({arguments(request[1].json[1])})
    /\ UNCHANGED <<analysis_engine, request, response>>
    /\ UNCHANGED <<vars, infrastructure_vars>>

\* lines 73-92
route_analyze_prop_return ==
    /\ Handling("analyze-prop")
    /\ call # <<>>
    /\ response' =
         IF raised = "no"
         THEN <<Response(200, analyze_prop_response(projection[1]))>>
         ELSE <<Response(500, [error |-> raised])>>
    /\ UNCHANGED <<analysis_engine, call, frame, projection, raised, request>>
    /\ UNCHANGED <<vars, infrastructure_vars>>

\* POST /batch-analysis, lines 107-112
batch_analysis_begin ==
    /\ analysis_engine # <<>>
    /\ request = <<>>
    /\ \E json \in BatchBodies :
        /\ request' = <<[endpoint |-> "batch-analysis", json |-> json]>>
        /\ IF json = <<>>
           THEN \* None has no attribute get; lines 134-136
                /\ raised' = "AttributeError"
                /\ response' = <<Response(500, [error |-> "AttributeError"])>>
           ELSE IF "props" \notin DOMAIN json[1] \/ json[1].props = <<>>
           THEN /\ raised' = "no"
                /\ response' = <<Response(400, [error |-> "No props provided"])>>
           ELSE /\ raised' = "no"
                /\ response' = <<>>
    /\ UNCHANGED <<analysis_engine, call, frame, projection>>
    /\ UNCHANGED <<vars, infrastructure_vars>>

\* lines 115-122: the next prop of the loop is analysed
batch_analysis_prop ==
    /\ Handling("batch-analysis")
    /\ raised = "no"
    /\ Len(projection) < Len(request[1].json[1].props)
    /\ LET prop == request[1].json[1].props[Len(projection) + 1]
       IN  IF missing_field(prop, 1) # 0
           THEN \* prop[field] raises
                /\ raised' = "KeyError"
                /\ UNCHANGED <<call, frame, projection>>
           ELSE analyze_prop_of({arguments(prop)})
    /\ UNCHANGED <<analysis_engine, request, response>>
    /\ UNCHANGED <<vars, infrastructure_vars>>

\* lines 132-136
batch_analysis_return ==
    /\ Handling("batch-analysis")
    /\ raised # "no" \/ Len(projection) = Len(request[1].json[1].props)
    /\ response' =
         IF raised = "no"
         THEN <<Response(200,
                    [results |-> [i \in DOMAIN projection |-> batch_result(projection[i])]])>>
         ELSE <<Response(500, [error |-> raised])>>
    /\ UNCHANGED <<analysis_engine, call, frame, projection, raised, request>>
    /\ UNCHANGED <<vars, infrastructure_vars>>

RouteNext ==
    \/ engine_init
    \/ route_analyze_prop_begin
    \/ route_analyze_prop_call
    \/ route_analyze_prop_return
    \/ batch_analysis_begin
    \/ batch_analysis_prop
    \/ batch_analysis_return

RouteSpec == Init /\ [][RouteNext]_<<vars, workflow_vars>>

\* ------------------------------------------------------------- claims on the engine
\* C13: every projection analyze_prop returns recommends OVER exactly when its
\* edge percentage is above 5, UNDER exactly when it is below -5 and nothing
\* otherwise; an edge of exactly 5 or exactly -5 recommends nothing.
C13_RecommendedPlay ==
    \A p \in {projection[i] : i \in DOMAIN projection} :
        /\ p.recommended_play = "OVER" <=> float_gt(p.edge_percentage, float(5))
        /\ p.recommended_play = "UNDER" <=> float_lt(p.edge_percentage, float(-5))
        /\ p.recommended_play \in {"OVER", "UNDER", "None"}

\* a projection whose edge is exactly 5 percent and recommends nothing
C13_Witness ==
    /\ projection # <<>>
    /\ projection[1].edge_percentage = float(5)
    /\ projection[1].recommended_play = "None"

\* the calls that returned: the arguments, the locals at the return statement
\* and the projection returned
Returned ==
    {[game_values |-> call[i].game_values, prop_line |-> call[i].prop_line,
      locals |-> frame[i], projection |-> projection[i]] : i \in DOMAIN frame}

\* C14: the confidence level of every projection is the first rung that matches
\* of: insufficient below 5 games; low for an outlier or an absolute edge below
\* 3; high from 10 games on with an absolute edge above 8; medium.  So it is
\* never high below 10 games, at an absolute edge of 8 or less, or for an outlier.
C14_ConfidenceLadder ==
    \A r \in Returned :
        LET sampleSize == Len(r.game_values)
            isOutlier == r.locals.is_outlier
            absEdge == float_abs(r.projection.edge_percentage)
            level == r.projection.confidence_level
        IN  /\ level =
                 IF sampleSize < 5 THEN "insufficient"
                 ELSE IF isOutlier \/ float_lt(absEdge, float(3)) THEN "low"
                 ELSE IF sampleSize >= 10 /\ float_gt(absEdge, float(8)) THEN "high"
                 ELSE "medium"
            /\ level = "high" =>
                 sampleSize >= 10 /\ float_gt(absEdge, float(8)) /\ ~isOutlier

\* an outlier over more than 10 games with an absolute edge above 8, rated low
C14_Witness ==
    \E r \in Returned :
        /\ r.locals.is_outlier
        /\ Len(r.game_values) >= 10
        /\ float_gt(float_abs(r.projection.edge_percentage), float(8))
        /\ r.projection.confidence_level = "low"

\* C15: a call with a value series that is not empty and a prop line of zero or
\* less returns, without a fault, an edge percentage of 0, no recommended play
\* and a confidence that is neither high nor medium.
C15_NoEdgeWithoutLine ==
    \A i \in DOMAIN call :
        (call[i].game_values # <<>> /\ call[i].prop_line <= 0) =>
            /\ raised = "no"
            /\ i \in DOMAIN projection
            /\ projection[i].edge_percentage = Zero
            /\ projection[i].recommended_play = "None"
            /\ projection[i].confidence_level \notin {"high", "medium"}

\* ten games or more, projected well away from a line of zero
C15_Witness ==
    \E r \in Returned :
        /\ r.prop_line = 0
        /\ Len(r.game_values) >= 10
        /\ float_gt(r.projection.final_projection, float(8))
        /\ r.projection.edge_percentage = Zero
        /\ r.projection.confidence_level = "low"

\* sums of integers, exact
RECURSIVE SumOf(_)
SumOf(values) == IF values = <<>> THEN 0 ELSE Head(values) + SumOf(Tail(values))
Squares(values) == [i \in DOMAIN values |-> values[i] * values[i]]

\* n * (n - 1) times the sample variance of the values
ScaledVariance(values) == Len(values) * SumOf(Squares(values)) - SumOf(values) * SumOf(values)

\* |mean(last k values) - mean(values)| / sampleStdDev(values) > 2 for k the
\* smaller of recent_games and n, in exact arithmetic: both sides of the
\* inequality squared and multiplied by k^2 * n^2 * (n - 1) times the variance
ZScoreAboveTwo(values) ==
    LET n == Len(values)
        k == IF n < recent_games THEN n ELSE recent_games
        d == SumOf(last(values, recent_games)) * n - SumOf(values) * k
    IN  d * d * (n - 1) > 4 * k * k * n * ScaledVariance(values)

\* C16: analyze_prop takes the recent games for an outlier exactly when
\* |mean(last 5) - mean(all)| / sampleStdDev(all) is above 2.0, strictly; where
\* the values do not vary (a sample standard deviation of 0, or fewer than two
\* values) the z-score is 0 and the series is no outlier.
C16_OutlierAboveTwo ==
    \A r \in Returned :
        IF ScaledVariance(r.game_values) = 0
        THEN r.locals.z_score = Zero /\ ~r.locals.is_outlier
        ELSE r.locals.is_outlier <=> ZScoreAboveTwo(r.game_values)

\* a series whose z-score is exactly 2.0: no outlier
C16_Witness ==
    \E r \in Returned :
        /\ ScaledVariance(r.game_values) > 0
        /\ r.locals.z_score = float(2)
        /\ ~r.locals.is_outlier

\* C17: analyze_prop called with an empty value series fails with
\* InsufficientDataError and returns no projection.
C17_EmptySeriesRejected ==
    \A i \in DOMAIN call :
        call[i].game_values = <<>> =>
            raised = "InsufficientDataError" /\ projection = <<>>

\* C18: for a series of exactly one value v the baseline is computed without
\* raising and its standard deviation is 0; the projection returned is no
\* outlier, projects v and has the confidence insufficient.
C18_SingleValue ==
    \A i \in DOMAIN call :
        Len(call[i].game_values) = 1 =>
            /\ raised = "no"
            /\ i \in DOMAIN frame
            /\ frame[i].baseline.std_dev = Zero
            /\ ~frame[i].is_outlier
            /\ projection[i].final_projection = float(call[i].game_values[1])
            /\ projection[i].confidence_level = "insufficient"

\* C19: the projection of a series whose values all equal c is c, the four
\* coefficients of the synthesis adding up to exactly 1.
C19_ConstantSeriesProjectsItself ==
    \A r \in Returned :
        \A c \in Levels :
            (r.game_values # <<>> /\ r.game_values = Run(c, Len(r.game_values))) =>
                r.projection.final_projection = float(c)

\* the engine was built with the default weights of __init__ (0.55 and 0.13)
DefaultWeights ==
    /\ analysis_engine # <<>>
    /\ analysis_engine[1] = AntiRecencyEngine(55, 13)

\* exact arithmetic on float64 values: x + y, n * x and x * 2^k without rounding
ExactSum(x, y) ==
    LET e == IF x.e < y.e THEN x.e ELSE y.e
        a == NatShl(x.m, x.e - e)
        b == NatShl(y.m, y.e - e)
    IN  IF x.s = y.s THEN Finite(x.s, NatAdd(a, b), e)
        ELSE IF NatLess(a, b) THEN Finite(y.s, NatSub(b, a), e)
        ELSE Finite(x.s, NatSub(a, b), e)
ExactTimes(n, x) == Finite(x.s, NatMul(NatOf(n), x.m), x.e)
ExactShift(x, k) == IF IsZero(x) THEN x ELSE [x EXCEPT !.e = @ + k]

\* the mean of integer values: their exact sum divided by their number, rounded once
MeanOf(values) == float_div(float(SumOf(values)), float(Len(values)))

\* 100 * x = 95 * mean + 5 * trend up to a relative error of 2^-50, computed exactly
RegressedProjection(x, mean, trend) ==
    LET exact == ExactSum(ExactTimes(95, mean), ExactTimes(5, trend))
        error == ExactSum(ExactTimes(100, x), float_neg(exact))
    IN  /\ IsNum(x)
        /\ ~float_lt(float_abs(exact), ExactShift(float_abs(error), 50))

C25_ShortSeriesNoOutlier ==
    \A r \in Returned :
        (r.game_values # <<>> /\ Len(r.game_values) <= recent_games) =>
            /\ r.locals.recent_mean = r.locals.baseline.mean
            /\ r.locals.z_score = Zero
            /\ ~r.locals.is_outlier

\* the series 10, 12, 9, 11, 50: a last game far from the others, no outlier
C25_Witness ==
    \E r \in Returned :
        /\ r.game_values = <<10, 12, 9, 11, 50>>
        /\ float_gt(r.locals.baseline.std_dev, float(17))
        /\ r.locals.recent_mean = MeanOf(r.game_values)
        /\ r.locals.z_score = Zero
        /\ ~r.locals.is_outlier

\* the least and the greatest value of a series
MinOf(values) == CHOOSE v \in {values[i] : i \in DOMAIN values} :
                     \A i \in DOMAIN values : v <= values[i]
MaxOf(values) == CHOOSE v \in {values[i] : i \in DOMAIN values} :
                     \A i \in DOMAIN values : v >= values[i]

\* C30: with the default weights the projection of a series that is not empty
\* is a number between the least and the greatest value of the series.
C30_ProjectionWithinRange ==
    DefaultWeights =>
        \A r \in Returned :
            r.game_values # <<>> =>
                /\ IsNum(r.projection.final_projection)
                /\ ~float_lt(r.projection.final_projection, float(MinOf(r.game_values)))
                /\ ~float_gt(r.projection.final_projection, float(MaxOf(r.game_values)))

\* ------------------------------------------------------------- claims on the routes
\* the batch requests answered that asked for one prop or more
AnsweredBatches ==
    {i \in DOMAIN response :
        /\ request[i].endpoint = "batch-analysis"
        /\ request[i].json # <<>>
        /\ "props" \in DOMAIN request[i].json[1]
        /\ request[i].json[1].props # <<>>}

\* a prop the engine analyses without failing
Analysable(prop) == missing_field(prop, 1) = 0 /\ prop.game_values # <<>>

\* C11: a prop whose analysis fails does not abort the batch: the response has
\* one entry for each prop of the request, in the order of the request, that is
\* the error of the prop or its projection, and the entry of a prop that does
\* not fail is the projection of that prop analysed alone.
C11_BatchPartialFailure ==
    \A i \in AnsweredBatches :
        LET props == request[i].json[1].props
            body == response[i].body
        IN  /\ "results" \in DOMAIN body
            /\ Len(body.results) = Len(props)
            /\ \A j \in DOMAIN props :
                 \/ ~Analysable(props[j]) /\ "error" \in DOMAIN body.results[j]
                 \/ \E c \in DOMAIN projection :
                       /\ call[c] = arguments(props[j])
                       /\ body.results[j] = batch_result(projection[c])

\* the requests answered that lack a required field: the body is null, or the
\* prop or a prop of the batch has no such field
LackingField ==
    {i \in DOMAIN response :
        \/ request[i].json = <<>>
        \/ /\ request[i].endpoint = "analyze-prop"
           /\ missing_field(request[i].json[1], 1) # 0
        \/ /\ request[i].endpoint = "batch-analysis"
           /\ "props" \in DOMAIN request[i].json[1]
           /\ \E j \in DOMAIN request[i].json[1].props :
                 missing_field(request[i].json[1].props[j], 1) # 0}

\* C12: either endpoint answers a request that lacks a required field, a null
\* body included, with a client error (4xx) and an error payload, never with
\* a server error.
C12_MissingFieldIsClientError ==
    \A i \in LackingField :
        /\ response[i].status \in 400..499
        /\ "error" \in DOMAIN response[i].body

\* ------------------------------------------------------------- the connection pool
Threads == 1..NumThreads

\* SimpleConnectionPool(minconn=2, maxconn=20, ...)
maxconn == 20

\* every step of DatabaseManager leaves the rest of the system alone
DatabaseStep(t) ==
    /\ t \in Threads
    /\ UNCHANGED <<vars, workflow_vars, migration_vars>>

\* the module executed without its last line, db_manager = DatabaseManager()
import_module_without_instance(t) ==
    /\ DatabaseStep(t)
    /\ ~imported /\ importing = 0 /\ imports < MaxImports
    /\ thread_pc[t] = "idle"
    /\ imports' = imports + 1
    /\ imported' = TRUE
    /\ _instance' = <<>>
    /\ UNCHANGED <<importing, _connection_pool, pools, db_manager, received,
                   thread_pc, thread_conn, thread_result>>

\* a thread is the first to import api.database: it executes the module, the
\* class statement (lines 9-17) and then line 120, a call of DatabaseManager();
\* until the module is executed no other thread gets at the class
import_module(t) ==
    /\ DatabaseStep(t)
    /\ ~imported /\ importing = 0 /\ imports < MaxImports
    /\ thread_pc[t] = "idle"
    /\ imports' = imports + 1
    /\ importing' = t
    /\ _instance' = <<>>
    /\ thread_pc' = [thread_pc EXCEPT ![t] = "new"]
    /\ UNCHANGED <<imported, _connection_pool, pools, db_manager, received,
                   thread_conn, thread_result>>

\* a thread calls DatabaseManager()
DatabaseManager(t) ==
    /\ DatabaseStep(t)
    /\ imported
    /\ thread_pc[t] = "idle"
    /\ thread_pc' = [thread_pc EXCEPT ![t] = "new"]
    /\ UNCHANGED <<imports, importing, imported, _instance, _connection_pool, pools,
                   db_manager, received, thread_conn, thread_result>>

\* line 20: if cls._instance is None
new_check(t) ==
    /\ DatabaseStep(t)
    /\ thread_pc[t] = "new"
    /\ thread_pc' = [thread_pc EXCEPT ![t] =
                        IF _instance = <<>> THEN "new_object" ELSE "new_return"]
    /\ UNCHANGED <<imports, importing, imported, _instance, _connection_pool, pools,
                   db_manager, received, thread_conn, thread_result>>

\* line 21: cls._instance = super().__new__(cls); the object reads the class
\* attribute _connection_pool = None until it has one of its own
new_object(t) ==
    /\ DatabaseStep(t)
    /\ thread_pc[t] = "new_object"
    /\ _connection_pool' = Append(_connection_pool, 0)
    /\ _instance' = <<Len(_connection_pool) + 1>>
    /\ thread_pc' = [thread_pc EXCEPT ![t] = "new_pool"]
    /\ UNCHANGED <<imports, importing, imported, pools, db_manager, received,
                   thread_conn, thread_result>>

\* line 22: cls._instance._initialize_pool() (lines 25-45): the pool is created,
\* or SimpleConnectionPool raises and the error is logged and raised again; an
\* error in line 120 ends the import, and the module is dropped from sys.modules
_initialize_pool(t) ==
    /\ DatabaseStep(t)
    /\ thread_pc[t] = "new_pool"
    /\ \E created \in BOOLEAN :
        IF created
        THEN /\ pools' = Append(pools, [closed |-> FALSE, used |-> 0])
             /\ _connection_pool' =
                    [_connection_pool EXCEPT ![_instance[1]] = Len(pools) + 1]
             /\ thread_pc' = [thread_pc EXCEPT ![t] = "new_return"]
             /\ UNCHANGED <<importing, thread_result>>
        ELSE /\ importing' = IF importing = t THEN 0 ELSE importing
             /\ thread_pc' = [thread_pc EXCEPT ![t] = "idle"]
             /\ thread_result' = [thread_result EXCEPT ![t] = "raised"]
             /\ UNCHANGED <<pools, _connection_pool>>
    /\ UNCHANGED <<imports, imported, _instance, db_manager, received, thread_conn>>

\* line 23: return cls._instance; in line 120 the object is bound to db_manager
\* and the module is executed
new_return(t) ==
    /\ DatabaseStep(t)
    /\ thread_pc[t] = "new_return"
    /\ received' = received \cup {_instance[1]}
    /\ thread_result' = [thread_result EXCEPT ![t] = "instance"]
    /\ thread_pc' = [thread_pc EXCEPT ![t] = "idle"]
    /\ IF importing = t
       THEN /\ db_manager' = _instance
            /\ imported' = TRUE
            /\ importing' = 0
       ELSE UNCHANGED <<db_manager, imported, importing>>
    /\ UNCHANGED <<imports, _instance, _connection_pool, pools, thread_conn>>

\* a thread is between get_connection and return_connection
InQuery(t) == thread_pc[t] \in {"query_try", "query_finally"}

\* db_manager.execute_query(...), one call at a time; lines 97-99 with
\* get_connection (47-60): None without a pool or when getconn raises (the
\* pool is closed or exhausted, or a connection cannot be opened)
execute_query(t) ==
    /\ DatabaseStep(t)
    /\ imported /\ db_manager # <<>>
    /\ thread_pc[t] = "idle"
    /\ \A u \in Threads : ~InQuery(u)
    /\ \E connected \in BOOLEAN :
        LET p == _connection_pool[db_manager[1]] IN
        IF p = 0 \/ pools[p].closed \/ pools[p].used >= maxconn \/ ~connected
        THEN /\ thread_result' = [thread_result EXCEPT ![t] = "no connection"]
             /\ UNCHANGED <<pools, thread_conn, thread_pc>>
        ELSE /\ pools' = [pools EXCEPT ![p].used = @ + 1]
             /\ thread_conn' = [thread_conn EXCEPT ![t] = p]
             /\ thread_pc' = [thread_pc EXCEPT ![t] = "query_try"]
             /\ UNCHANGED thread_result
    /\ UNCHANGED <<imports, importing, imported, _instance, _connection_pool,
                   db_manager, received>>

\* lines 101-114: the rows are fetched, or an exception is logged; execute_query
\* answers None for it as it does without a connection
execute_query_try(t) ==
    /\ DatabaseStep(t)
    /\ thread_pc[t] = "query_try"
    /\ \E answer \in {"rows", "query error"} :
        thread_result' = [thread_result EXCEPT ![t] = answer]
    /\ thread_pc' = [thread_pc EXCEPT ![t] = "query_finally"]
    /\ UNCHANGED <<imports, importing, imported, _instance, _connection_pool, pools,
                   db_manager, received, thread_conn>>

\* the connection given back only after a query that did not raise
execute_query_finally_on_success(t) ==
    /\ DatabaseStep(t)
    /\ thread_pc[t] = "query_finally"
    /\ pools' = IF thread_result[t] = "rows"
                THEN [pools EXCEPT ![thread_conn[t]].used = @ - 1] ELSE pools
    /\ thread_conn' = [thread_conn EXCEPT ![t] = 0]
    /\ thread_pc' = [thread_pc EXCEPT ![t] = "idle"]
    /\ UNCHANGED <<imports, importing, imported, _instance, _connection_pool,
                   db_manager, received, thread_result>>

\* lines 115-116: finally self.return_connection(conn) (62-72), putconn
execute_query_finally(t) ==
    /\ DatabaseStep(t)
    /\ thread_pc[t] = "query_finally"
    /\ pools' = [pools EXCEPT ![thread_conn[t]].used = @ - 1]
    /\ thread_conn' = [thread_conn EXCEPT ![t] = 0]
    /\ thread_pc' = [thread_pc EXCEPT ![t] = "idle"]
    /\ UNCHANGED <<imports, importing, imported, _instance, _connection_pool,
                   db_manager, received, thread_result>>

\* db_manager.close_all_connections() (lines 74-84) between two queries
close_all_connections(t) ==
    /\ DatabaseStep(t)
    /\ imported /\ db_manager # <<>>
    /\ thread_pc[t] = "idle"
    /\ \A u \in Threads : ~InQuery(u)
    /\ LET p == _connection_pool[db_manager[1]] IN
        /\ p # 0
        /\ ~pools[p].closed
        /\ pools' = [pools EXCEPT ![p].closed = TRUE]
    /\ UNCHANGED <<imports, importing, imported, _instance, _connection_pool,
                   db_manager, received, thread_pc, thread_conn, thread_result>>

DatabaseNext ==
    \/ \E t \in Threads : import_module(t)
    \/ \E t \in Threads : DatabaseManager(t)
    \/ \E t \in Threads : new_check(t)
    \/ \E t \in Threads : new_object(t)
    \/ \E t \in Threads : _initialize_pool(t)
    \/ \E t \in Threads : new_return(t)
    \/ \E t \in Threads : execute_query(t)
    \/ \E t \in Threads : execute_query_try(t)
    \/ \E t \in Threads : execute_query_finally(t)
    \/ \E t \in Threads : close_all_connections(t)

DatabaseSpec == Init /\ [][DatabaseNext]_<<vars, workflow_vars, infrastructure_vars>>

\* ------------------------------------------------------------- the migration runner
\* sorted(migrations_dir.glob('*.sql')): the files by the rank of their names,
\* 1 for 001_init_schema.sql and 2 for 002_sport_specific_stats.sql; a version
\* in schema_migrations is the rank of the file name it holds
migration_files == [i \in 1..NumMigrations |-> i]

\* the versions committed to schema_migrations
Recorded == IF schema_migrations = <<>> THEN {} ELSE schema_migrations[1]

\* the files that create the tables public.teams and public.nba_player_stats
\* (lines 39-55 take them for the first and the second file)
LegacyTables == {1, 2}

\* every step of the startup leaves the rest of the system alone
MigrationStep == UNCHANGED <<vars, workflow_vars, database_vars>>

\* a database set up before the runner existed: the tables of the first file,
\* or of the first two, are there and schema_migrations is not (lines 38-39)
legacy_deployment ==
    /\ MigrationStep
    /\ startup_pc = "idle"
    /\ startups = 0
    /\ applied = {}
    /\ \E found \in {{1}, LegacyTables} : applied' = found
    /\ UNCHANGED <<startups, startup_pc, DATABASE_URL, conn_bound, schema_migrations,
                   migration_tx, migrations_to_run, executions, success, completed>>

\* python start_app.py: lines 14-19, the call of run_migrations()
start_app ==
    /\ MigrationStep
    /\ startup_pc = "idle"
    /\ startups < MaxStartups
    /\ startups' = startups + 1
    /\ \E url \in BOOLEAN : DATABASE_URL' = url
    /\ startup_pc' = "getenv"
    /\ UNCHANGED <<conn_bound, schema_migrations, applied, migration_tx,
                   migrations_to_run, executions, success, completed>>

\* lines 16-19
run_migrations_getenv ==
    /\ MigrationStep
    /\ startup_pc = "getenv"
    /\ IF DATABASE_URL
       THEN /\ startup_pc' = "connect"
            /\ UNCHANGED success
       ELSE /\ startup_pc' = "flask"
            /\ success' = "False"
    /\ UNCHANGED <<startups, DATABASE_URL, conn_bound, schema_migrations, applied,
                   migration_tx, migrations_to_run, executions, completed>>

\* the except clause, lines 109-113: `if conn:` reads a local that is assigned
\* in line 25 only, so before that the handler itself raises UnboundLocalError,
\* which leaves run_migrations and ends start_app; else rollback, return False
run_migrations_except ==
    /\ IF conn_bound
       THEN /\ migration_tx' = NoTx
            /\ success' = "False"
            /\ startup_pc' = "flask"
            /\ UNCHANGED completed
       ELSE /\ completed' = Append(completed,
                                   [returned |-> "UnboundLocalError", flask |-> FALSE])
            /\ startup_pc' = "idle"
            /\ UNCHANGED <<migration_tx, success>>
    /\ migrations_to_run' = <<>>

\* lines 23-27: psycopg2.connect(database_url), or the database is not reached
run_migrations_connect ==
    /\ MigrationStep
    /\ startup_pc = "connect"
    /\ \E connected \in BOOLEAN :
        IF connected
        THEN /\ conn_bound' = TRUE
             /\ startup_pc' = "create_table"
             /\ UNCHANGED <<migration_tx, migrations_to_run, success, completed>>
        ELSE /\ run_migrations_except
             /\ UNCHANGED conn_bound
    /\ UNCHANGED <<startups, DATABASE_URL, schema_migrations, applied, executions>>

\* lines 29-36: CREATE TABLE IF NOT EXISTS schema_migrations; conn.commit()
run_migrations_create_table ==
    /\ MigrationStep
    /\ startup_pc = "create_table"
    /\ \E refused \in BOOLEAN :
        IF refused
        THEN /\ run_migrations_except
             /\ UNCHANGED schema_migrations
        ELSE /\ schema_migrations' = <<Recorded>>
             /\ startup_pc' = "populate"
             /\ UNCHANGED <<migration_tx, migrations_to_run, success, completed>>
    /\ UNCHANGED <<startups, DATABASE_URL, conn_bound, applied, executions>>

\* lines 38-57: a legacy table that exists records its file, ON CONFLICT DO
\* NOTHING; conn.commit()
run_migrations_populate ==
    /\ MigrationStep
    /\ startup_pc = "populate"
    /\ \E refused \in BOOLEAN :
        IF refused
        THEN /\ run_migrations_except
             /\ UNCHANGED schema_migrations
        ELSE /\ schema_migrations' = <<Recorded \cup (applied \cap LegacyTables)>>
             /\ startup_pc' = "select"
             /\ UNCHANGED <<migration_tx, migrations_to_run, success, completed>>
    /\ UNCHANGED <<startups, DATABASE_URL, conn_bound, applied, executions>>

\* the runner taking every file for pending, whatever schema_migrations holds
run_migrations_select_all ==
    /\ MigrationStep
    /\ startup_pc = "select"
    /\ \E refused \in BOOLEAN :
        IF refused
        THEN run_migrations_except
        ELSE /\ migrations_to_run' = migration_files
             /\ startup_pc' = "execute"
             /\ UNCHANGED <<migration_tx, success, completed>>
    /\ UNCHANGED <<startups, DATABASE_URL, conn_bound, schema_migrations, applied,
                   executions>>

\* lines 59-80: the versions executed are read, the files not among them are
\* pending; without any, cursor and connection are closed and True is returned
run_migrations_select ==
    /\ MigrationStep
    /\ startup_pc = "select"
    /\ \E refused \in BOOLEAN :
        IF refused
        THEN run_migrations_except
        ELSE \E to_run \in {SelectSeq(migration_files, LAMBDA f : f \notin Recorded)} :
                /\ migrations_to_run' = to_run
                /\ IF to_run = <<>>
                   THEN /\ success' = "True"
                        /\ startup_pc' = "flask"
                   ELSE /\ startup_pc' = "execute"
                        /\ UNCHANGED success
                /\ UNCHANGED <<migration_tx, completed>>
    /\ UNCHANGED <<startups, DATABASE_URL, conn_bound, schema_migrations, applied,
                   executions>>

\* the SQL of a file run on a connection that commits every statement at once
run_migrations_execute_autocommit ==
    /\ MigrationStep
    /\ startup_pc = "execute"
    /\ executions' = Append(executions,
                            [startup |-> startups, file |-> Head(migrations_to_run),
                             recorded |-> Head(migrations_to_run) \in Recorded])
    /\ \E refused \in BOOLEAN :
        IF refused
        THEN /\ run_migrations_except
             /\ UNCHANGED applied
        ELSE /\ applied' = applied \cup {Head(migrations_to_run)}
             /\ startup_pc' = "record"
             /\ UNCHANGED <<migration_tx, migrations_to_run, success, completed>>
    /\ UNCHANGED <<startups, DATABASE_URL, conn_bound, schema_migrations>>

\* lines 82-90: the next pending file is read and cursor.execute(sql) runs it
\* in the open transaction, or the database refuses it
run_migrations_execute ==
    /\ MigrationStep
    /\ startup_pc = "execute"
    /\ executions' = Append(executions,
                            [startup |-> startups, file |-> Head(migrations_to_run),
                             recorded |-> Head(migrations_to_run) \in Recorded])
    /\ \E refused \in BOOLEAN :
        IF refused
        THEN run_migrations_except
        ELSE /\ migration_tx' =
                    [migration_tx EXCEPT !.effects = @ \cup {Head(migrations_to_run)}]
             /\ startup_pc' = "record"
             /\ UNCHANGED <<migrations_to_run, success, completed>>
    /\ UNCHANGED <<startups, DATABASE_URL, conn_bound, schema_migrations, applied>>

\* lines 92-96: INSERT INTO schema_migrations (version); the primary key
\* refuses a version that is recorded
run_migrations_record ==
    /\ MigrationStep
    /\ startup_pc = "record"
    /\ \E refused \in BOOLEAN :
        IF refused \/ Head(migrations_to_run) \in Recorded
        THEN run_migrations_except
        ELSE /\ migration_tx' =
                    [migration_tx EXCEPT !.versions = @ \cup {Head(migrations_to_run)}]
             /\ startup_pc' = "commit"
             /\ UNCHANGED <<migrations_to_run, success, completed>>
    /\ UNCHANGED <<startups, DATABASE_URL, conn_bound, schema_migrations, applied,
                   executions>>

\* lines 98-107: conn.commit(), then the next file; after the last one cursor
\* and connection are closed and True is returned
run_migrations_commit ==
    /\ MigrationStep
    /\ startup_pc = "commit"
    /\ \E refused \in BOOLEAN :
        IF refused
        THEN /\ run_migrations_except
             /\ UNCHANGED <<applied, schema_migrations>>
        ELSE /\ applied' = applied \cup migration_tx.effects
             /\ schema_migrations' = <<Recorded \cup migration_tx.versions>>
             /\ migration_tx' = NoTx
             /\ migrations_to_run' = Tail(migrations_to_run)
             /\ IF Tail(migrations_to_run) = <<>>
                THEN /\ success' = "True"
                     /\ startup_pc' = "flask"
                ELSE /\ startup_pc' = "execute"
                     /\ UNCHANGED success
             /\ UNCHANGED completed
    /\ UNCHANGED <<startups, DATABASE_URL, conn_bound, executions>>

\* start_app lines 21-29: a warning for False, then the Flask API is started
start_app_flask ==
    /\ MigrationStep
    /\ startup_pc = "flask"
    /\ completed' = Append(completed, [returned |-> success, flask |-> TRUE])
    /\ startup_pc' = "idle"
    /\ success' = "none"
    /\ conn_bound' = FALSE
    /\ migrations_to_run' = <<>>
    /\ UNCHANGED <<startups, DATABASE_URL, schema_migrations, applied, migration_tx,
                   executions>>

MigrationNext ==
    \/ legacy_deployment
    \/ start_app
    \/ run_migrations_getenv
    \/ run_migrations_connect
    \/ run_migrations_create_table
    \/ run_migrations_populate
    \/ run_migrations_select
    \/ run_migrations_execute
    \/ run_migrations_record
    \/ run_migrations_commit
    \/ start_app_flask

MigrationSpec == Init /\ [][MigrationNext]_<<vars, workflow_vars, infrastructure_vars>>

\* ------------------------------------------------------------- C21
\* C21: no file is executed while its name is recorded in schema_migrations,
\* and the files one run executes are executed in the order of their names,
\* each once.
C21_RecordedNeverRerun ==
    /\ \A i \in DOMAIN executions : ~executions[i].recorded
    /\ \A i, j \in DOMAIN executions :
        (i < j /\ executions[i].startup = executions[j].startup)
        => executions[i].file < executions[j].file

\* a second run skips the file recorded by the first and executes the next
\* ones in order
C21_Witness ==
    \E i, j, k \in DOMAIN executions :
        /\ i < j /\ j < k
        /\ executions[i].startup = 1 /\ executions[i].file = 1
        /\ executions[j].startup = 2 /\ executions[j].file = 2
        /\ executions[k].startup = 2 /\ executions[k].file = 3
        /\ 1 \in Recorded
        /\ \A e \in DOMAIN executions : executions[e].startup = 2 => executions[e].file # 1

\* ------------------------------------------------------------- C23
\* C23: every startup gets True or False from run_migrations, never an
\* exception, and goes on to start the Flask API.
C23_FlaskAlwaysStarted ==
    \A i \in DOMAIN completed :
        /\ completed[i].returned \in {"True", "False"}
        /\ completed[i].flask

\* ------------------------------------------------------------- C29
\* the files the startup under way has executed, in order
ExecutedNow ==
    SelectSeq(executions, LAMBDA e : e.startup = startups)

\* the files some run of the runner has executed
Executed == {executions[i].file : i \in DOMAIN executions}

\* C29 as stated: in every state a migration's name is recorded exactly when
\* its SQL effects are committed.
C29_RecordedIffCommitted == Recorded = applied

\* C29: a recorded name always has its SQL effects committed, and the name of
\* a file the runner has executed is recorded exactly when the file's effects
\* are committed; the only effects committed without a record are those of the
\* tables found from before the runner kept records, which the runner has not
\* executed; when run_migrations has failed, the file it executed last is
\* neither applied nor recorded, the files it executed before are both, and it
\* executed no file after that one; when it has succeeded every file it
\* executed is applied and recorded.
C29_MigrationAtomic ==
    /\ Recorded \subseteq applied
    /\ applied \ Recorded \subseteq LegacyTables \ Executed
    /\ (startup_pc = "flask" /\ ExecutedNow # <<>>) =>
          \A i \in DOMAIN ExecutedNow :
              IF success = "False" /\ i = Len(ExecutedNow)
              THEN ExecutedNow[i].file \notin applied \cup Recorded
              ELSE ExecutedNow[i].file \in applied \cap Recorded

\* the second file of a run failed: the first stays applied and recorded, the
\* third was not run
C29_Witness ==
    /\ startup_pc = "flask" /\ success = "False"
    /\ Len(ExecutedNow) = 2
    /\ ExecutedNow[1].file = 1 /\ ExecutedNow[2].file = 2
    /\ applied = {1} /\ Recorded = {1}
    /\ migration_tx = NoTx

\* ------------------------------------------------------------- C22
\* C22: however many threads construct DatabaseManager(), at most one
\* connection pool is ever created and every caller receives the same object.
C22_Singleton ==
    /\ Len(pools) <= 1
    /\ Cardinality(received) <= 1

\* two threads hold the object, one of them constructing again while the other
\* returns from the constructor
C22_Witness ==
    \E t, u \in Threads :
        /\ t # u
        /\ thread_result[t] = "instance" /\ thread_pc[t] = "new_return"
        /\ thread_result[u] = "instance"
        /\ Len(pools) = 1
        /\ received = {db_manager[1]}

C26_DecisionStep ==
    \A c \in Calls :
        (pc[c] = "r_select" /\ pc'[c] # "r_select" /\ faulted'[c] # "r_select")
        => (pc'[c] = "r_insert" <=> TriggerPolicy(model_performance_metrics[sport[c]]))

\* C26: the retraining decision is a function of the latest daily metric row
\* of the sport alone: every evaluation that reads a row meeting the policy
\* decides to trigger, every other one decides not to, whatever triggers were
\* written before; so each of several verifications made while the row stays
\* below policy decides to trigger again.
C26_StatelessDecision == [][C26_DecisionStep]_vars

\* a verification has decided to trigger and is over, and another one decides
\* to trigger on the same row
C26_Witness ==
    \E c, d \in Calls :
        /\ c # d
        /\ Verifying(d) /\ pc[d] = "done" /\ outcome[d] = "ok" /\ faulted[d] = "no"
        /\ "checking retraining" \in logged[d]
        /\ Verifying(c) /\ pc[c] = "r_insert"
        /\ TriggerPolicy(metric_row[c])

\* ------------------------------------------------------------- C27
\* C27: a verify_result call that has ended by raising an error has left no
\* verification row of its own.
C27_RaisedPersistsNothing ==
    \A c \in Calls :
        (Verifying(c) /\ pc[c] = "done" /\ outcome[c] # "ok") => ResultsBy(c) = {}

====
